---------------------------- MODULE Spec2Model ----------------------------
(***************************************************************************)
(* Well-state container of opm-simulators (WellState.cpp): initialisation  *)
(* of a report step, carry-over from the previous container, multi-segment *)
(* initialisation, segment-rate aggregation and the parallel reduction of  *)
(* the group rates.                                                        *)
(*                                                                         *)
(* Conventions.  Vectors (std::vector<double>) are functions over 0..n-1,  *)
(* so that the index arithmetic of the source (np*perf + p) is kept.  The  *)
(* list of wells is a sequence; the source's well index w is position w+1. *)
(* Pressures and rates are integers: every pressure drawn is a multiple of *)
(* 100 and every rate target a multiple of 6, so that the factors 1.01     *)
(* and 0.99 and the division by the connection count are exact.            *)
(***************************************************************************)
EXTENDS Integers, Sequences, FiniteSets, TLC

VARIABLES
    report_step,        \* number of report steps begun so far
    cellPressures,      \* input of init: pressure per grid cell
    schedule,           \* input of init: well names and well/group events of the step
    wells_ecl,          \* input of init: the wells of this step, in well-list order
    prevState,          \* input of init: the previous container, or NoPrev (nullptr)
    wells_,             \* WellState::wells_      (the container of SingleWellState)
    well_rates,         \* WellState::well_rates  (name -> (owner, rates))
    alq_state,          \* WellState::alq_state   (default ALQ per producer)
    global_well_info,   \* WellState::global_well_info
    last,               \* the operation that produced this state
    rank_well_rates,    \* communicateGroupRates: well_rates of every process
    rank_alq,           \* communicateGroupRates: packed ALQ payload of every process
    rank_pre,           \* communicateGroupRates: well_rates of every process before the call
    segment_inlets,         \* calculateSegmentRates: argument
    segment_perforations,   \* calculateSegmentRates: argument
    perforation_rates,      \* calculateSegmentRates: argument
    segment_rates,          \* calculateSegmentRates: accumulator / result
    returned,               \* what the last call returned, or that it threw
    dense                   \* WellStateFullyImplicitBlackoilDense: the legacy dense state

vars ==
    << report_step, cellPressures, schedule, wells_ecl, prevState, wells_,
       well_rates, alq_state, global_well_info, last,
       rank_well_rates, rank_alq, rank_pre,
       segment_inlets, segment_perforations, perforation_rates, segment_rates,
       returned, dense >>

initVars ==
    << report_step, cellPressures, schedule, wells_ecl, prevState, wells_,
       well_rates, alq_state, global_well_info >>

commVars ==
    << rank_well_rates, rank_alq, rank_pre >>

segVars ==
    << segment_inlets, segment_perforations, perforation_rates, segment_rates >>

---------------------------------------------------------------------------
(* Bounds of the model.                                                    *)

\* report steps begun in one behaviour of the carry-over specifications
MaxSteps == 2

\* processes taking part in the reduction
MaxRanks == 3

\* segments and open perforations of a well given to calculateSegmentRates
MaxSeg == 3

MaxPerf == 2

---------------------------------------------------------------------------
(* Vectors.                                                                *)

VecLen(v) ==
    Cardinality(DOMAIN v)

Zeros(n) ==
    [i \in 0..(n - 1) |-> 0]

\* std::vector::resize(n, 0): keeps the elements it has, pads with 0
Resize(v, n) ==
    [i \in 0..(n - 1) |-> IF i \in DOMAIN v THEN v[i] ELSE 0]

\* the 0-based vector holding the elements of a sequence
VecOf(s) ==
    [i \in 0..(Len(s) - 1) |-> s[i + 1]]

---------------------------------------------------------------------------
(* Phase usage: three phases in the order water, oil, gas.                 *)

phase_usage_ ==
    [num_phases |-> 3,
     phase_used |-> [Aqua |-> TRUE, Liquid |-> TRUE, Vapour |-> TRUE],
     phase_pos  |-> [Aqua |-> 0, Liquid |-> 1, Vapour |-> 2]]

numPhases ==
    phase_usage_.num_phases

\* const WellState* prevState: a null pointer, or the wells of a container
NoPrev ==
    [given |-> FALSE, wells |-> << >>]

Previous(container) ==
    [given |-> TRUE, wells |-> container]

---------------------------------------------------------------------------
(* Single-well state and perforation data.                                 *)

\* PerforationData: the grid's record of one open connection
PerforationData(cell_index, connection_transmissibility_factor, satnum_id) ==
    [cell_index |-> cell_index,
     connection_transmissibility_factor |-> connection_transmissibility_factor,
     satnum_id |-> satnum_id]

\* the record of the connection to a cell: its transmissibility factor and
\* the saturation region of the cell
PerforationDataOf(cell) ==
    PerforationData(cell, 10 * (cell + 1), 1 + (cell % 2))

\* PerfData{well_perf_data.size(), ...}: one record per local open connection
NewPerfData(well_perf_data) ==
    [cell_index  |-> VecOf(well_perf_data),
     satnum_id   |-> [i \in 0..(Len(well_perf_data) - 1) |->
                        PerforationDataOf(well_perf_data[i + 1]).satnum_id],
     connection_transmissibility_factor |->
                     [i \in 0..(Len(well_perf_data) - 1) |->
                        PerforationDataOf(well_perf_data[i + 1])
                            .connection_transmissibility_factor],
     pressure    |-> Zeros(Len(well_perf_data)),
     phase_rates |-> Zeros(numPhases * Len(well_perf_data))]

PerfSize(perf_data) ==
    VecLen(perf_data.cell_index)

\* SegmentState{}: a well that is not multi-segment has no segments
EmptySegmentState ==
    [rates |-> Zeros(0), pressure |-> Zeros(0)]

\* SegmentState{np, segment_set}
NewSegmentState(num_phases, segment_set) ==
    [rates    |-> Zeros(num_phases * Len(segment_set)),
     pressure |-> Zeros(Len(segment_set))]

\* SingleWellState{name, well_info, is_producer, perf_input, num_phases, temp}
NewSingleWellState(well) ==
    [name               |-> well.name,
     producer           |-> well.isProducer,
     status             |-> "OPEN",
     bhp                |-> 0,
     thp                |-> 0,
     surface_rates      |-> Zeros(numPhases),
     reservoir_rates    |-> Zeros(numPhases),
     well_potentials    |-> Zeros(numPhases),
     productivity_index |-> Zeros(numPhases),
     injection_cmode    |-> "CMODE_UNDEFINED",
     production_cmode   |-> "CMODE_UNDEFINED",
     events             |-> {},
     perf_data          |-> NewPerfData(well.perf_cells),
     segments           |-> EmptySegmentState]

\* SingleWellState::open
open(ws) ==
    [ws EXCEPT !.status = "OPEN"]

\* SingleWellState::stop: the status changes to STOP and the rates are zeroed;
\* no pressure is recomputed
stop(ws) ==
    [ws EXCEPT !.status = "STOP",
               !.surface_rates = Zeros(numPhases),
               !.reservoir_rates = Zeros(numPhases)]

\* SingleWellState::shut: the status changes to SHUT and the rates are zeroed;
\* no pressure is recomputed
shut(ws) ==
    [ws EXCEPT !.status = "SHUT",
               !.surface_rates = Zeros(numPhases),
               !.reservoir_rates = Zeros(numPhases)]

\* SingleWellState::updateStatus
updateStatusOf(ws, status) ==
    CASE status = "OPEN" -> open(ws)
      [] status = "STOP" -> stop(ws)
      [] status = "SHUT" -> shut(ws)
      [] OTHER -> ws

\* SingleWellState::init_timestep: pressures of the previous step as warm start,
\* unless the well is SHUT in either step or changed its role
init_timestep(ws, other) ==
    IF ws.producer # other.producer \/ ws.status = "SHUT" \/ other.status = "SHUT"
    THEN ws
    ELSE [ws EXCEPT !.bhp = other.bhp, !.thp = other.thp]

\* PerfData::try_assign: per-connection values copied positionally
try_assign(perf_data, other) ==
    IF PerfSize(perf_data) # PerfSize(other)
    THEN perf_data
    ELSE [perf_data EXCEPT !.pressure = other.pressure,
                           !.phase_rates = other.phase_rates]

\* Events::hasEvent over the control-changing events (WellState::event_mask)
event_mask ==
    {"PRODUCTION_UPDATE", "INJECTION_UPDATE", "WELL_STATUS_CHANGE"}

hasEvent(events, mask) ==
    events \cap mask # {}

\* ParallelWellInfo::broadcastFirstPerforationValue: the value of the process
\* that holds the well's first perforation
broadcastFirstPerforationValue(well, value) ==
    IF well.first_perf_local THEN value ELSE well.remote_first_value

---------------------------------------------------------------------------
(* WellState::initSingleWell.                                              *)

\* faulty variant: the two safety factors exchanged
SafetyScaled_Swapped(isInjector, global_pressure) ==
    IF isInjector THEN (99 * global_pressure) \div 100
                  ELSE (101 * global_pressure) \div 100

\* safety_factor * global_pressure, safety_factor = 1.01 (injector) or 0.99
SafetyScaled(isInjector, global_pressure) ==
    IF isInjector THEN (101 * global_pressure) \div 100
                  ELSE (99 * global_pressure) \div 100

\* faulty variant: the producer's target stored without the sign of production
OwnControlRates_Unsigned(well, surface_rates) ==
    LET pu == phase_usage_
    IN  IF well.isInjector
        THEN IF well.cmode = "RATE" /\ well.injector_type = "WATER"
             THEN [surface_rates EXCEPT ![pu.phase_pos.Aqua] = well.surface_rate]
             ELSE surface_rates
        ELSE CASE well.cmode = "ORAT" ->
                    [surface_rates EXCEPT ![pu.phase_pos.Liquid] = well.oil_rate]
               [] well.cmode = "WRAT" ->
                    [surface_rates EXCEPT ![pu.phase_pos.Aqua] = well.water_rate]
               [] well.cmode = "GRAT" ->
                    [surface_rates EXCEPT ![pu.phase_pos.Vapour] = well.gas_rate]
               [] OTHER -> surface_rates

\* lines 135-176: rates of an open well under its own control
OwnControlRates(well, surface_rates) ==
    LET pu == phase_usage_
    IN  IF well.isInjector
        THEN IF well.cmode = "RATE"
             THEN CASE well.injector_type = "WATER" ->
                         [surface_rates EXCEPT ![pu.phase_pos.Aqua] = well.surface_rate]
                    [] well.injector_type = "GAS" ->
                         [surface_rates EXCEPT ![pu.phase_pos.Vapour] = well.surface_rate]
                    [] well.injector_type = "OIL" ->
                         [surface_rates EXCEPT ![pu.phase_pos.Liquid] = well.surface_rate]
                    [] OTHER -> surface_rates
             ELSE surface_rates
        ELSE CASE well.cmode = "ORAT" ->
                    [surface_rates EXCEPT ![pu.phase_pos.Liquid] = -well.oil_rate]
               [] well.cmode = "WRAT" ->
                    [surface_rates EXCEPT ![pu.phase_pos.Aqua] = -well.water_rate]
               [] well.cmode = "GRAT" ->
                    [surface_rates EXCEPT ![pu.phase_pos.Vapour] = -well.gas_rate]
               [] OTHER -> surface_rates

\* lines 101-113: a stopped well
StoppedWellBhp(is_bhp, bhp_limit, global_pressure) ==
    IF is_bhp THEN bhp_limit ELSE global_pressure

\* faulty variant: the bhp limit of a bhp-controlled well is not used
OwnControlBhp_NoLimit(well, is_bhp, bhp_limit, global_pressure) ==
    SafetyScaled(well.isInjector, global_pressure)

\* lines 183-188: an open well under its own control
OwnControlBhp(well, is_bhp, bhp_limit, global_pressure) ==
    IF is_bhp THEN bhp_limit ELSE SafetyScaled(well.isInjector, global_pressure)

\* faulty variant: a well without local connections returns only after the
\* broadcast of the first-connection pressure
initSingleWell_LateReturn(cellPressures_, well) ==
    LET ws == NewSingleWellState(well)
        is_bhp == well.cmode = "BHP"
        bhp_limit == well.bhp_limit
        global_pressure ==
            IF PerfSize(ws.perf_data) = 0
            THEN well.remote_first_value
            ELSE broadcastFirstPerforationValue(well, cellPressures_[ws.perf_data.cell_index[0]])
        ws1 == IF well.status = "OPEN" THEN [ws EXCEPT !.status = "OPEN"] ELSE ws
        ws2 == IF well.has_thp THEN [ws1 EXCEPT !.thp = well.thp_limit] ELSE ws1
        is_grup == well.cmode = "GRUP"
    IN  IF PerfSize(ws.perf_data) = 0
        THEN [ws EXCEPT !.bhp = SafetyScaled(well.isInjector, global_pressure)]
        ELSE IF well.status = "STOP"
        THEN [ws2 EXCEPT !.bhp = StoppedWellBhp(is_bhp, bhp_limit, global_pressure)]
        ELSE IF is_grup
        THEN [ws2 EXCEPT !.bhp = SafetyScaled(well.isInjector, global_pressure)]
        ELSE [ws2 EXCEPT !.surface_rates = OwnControlRates(well, @),
                         !.bhp = OwnControlBhp(well, is_bhp, bhp_limit, global_pressure)]

\* lines 68-189, for a well that is either injector or producer
initSingleWell(cellPressures_, well) ==
    LET ws == NewSingleWellState(well)
        is_bhp == well.cmode = "BHP"
        bhp_limit == well.bhp_limit
        global_pressure ==
            broadcastFirstPerforationValue(well, cellPressures_[ws.perf_data.cell_index[0]])
        ws1 == IF well.status = "OPEN" THEN [ws EXCEPT !.status = "OPEN"] ELSE ws
        ws2 == IF well.has_thp THEN [ws1 EXCEPT !.thp = well.thp_limit] ELSE ws1
        is_grup == well.cmode = "GRUP"
    IN  IF PerfSize(ws.perf_data) = 0
        THEN ws
        ELSE IF well.status = "STOP"
        THEN [ws2 EXCEPT !.bhp = StoppedWellBhp(is_bhp, bhp_limit, global_pressure)]
        ELSE IF is_grup
        THEN [ws2 EXCEPT !.bhp = SafetyScaled(well.isInjector, global_pressure)]
        ELSE [ws2 EXCEPT !.surface_rates = OwnControlRates(well, @),
                         !.bhp = OwnControlBhp(well, is_bhp, bhp_limit, global_pressure)]

\* faulty variant: only a well that is neither injector nor producer is rejected
InvalidWell_OnlyNeither(well) ==
    ~well.isInjector /\ ~well.isProducer

\* line 65: the well definition initSingleWell rejects
InvalidWell(well) ==
    well.isInjector = well.isProducer

\* WellState::base_init: the wells are initialised in order; the first invalid
\* definition throws, leaving the wells added before it
RECURSIVE base_init_from(_, _, _, _)
base_init_from(cellPressures_, wells, w, acc) ==
    IF w > Len(wells) \/ InvalidWell(wells[w])
    THEN acc
    ELSE base_init_from(cellPressures_, wells, w + 1,
                        Append(acc, initSingleWell(cellPressures_, wells[w])))

\* faulty variant: the old name mapping is not cleared
base_init_NoClear(cellPressures_, wells) ==
    base_init_from(cellPressures_, wells, 1, wells_)

base_init(cellPressures_, wells) ==
    base_init_from(cellPressures_, wells, 1, << >>)

---------------------------------------------------------------------------
(* WellState::init.                                                        *)

WellNamesOf(wells) ==
    {wells[i].name : i \in 1..Len(wells)}

\* WellContainer::index: the position of the well of that name, 0 when absent
IndexOf(container, name) ==
    IF \E i \in 1..Len(container) : container[i].name = name
    THEN CHOOSE i \in 1..Len(container) : container[i].name = name
    ELSE 0

\* lines 204-211: an entry is inserted for every well of the schedule that has
\* none, then the owner flag of every well of this process is set
UpdateWellRates(well_rates_, schedule_, wells) ==
    LET inserted ==
            [n \in (DOMAIN well_rates_) \cup schedule_.wellNames |->
                IF n \in DOMAIN well_rates_
                THEN well_rates_[n]
                ELSE [owner |-> FALSE, rates |-> Zeros(numPhases)]]
        local == WellNamesOf(wells)
    IN  [n \in (DOMAIN inserted) \cup local |->
            IF n \in local
            THEN [owner |-> wells[IndexOf(wells, n)].isOwner,
                  rates |-> IF n \in DOMAIN inserted THEN inserted[n].rates ELSE Zeros(0)]
            ELSE inserted[n]]

\* lines 226-233
ApplyEvents(ws, schedule_) ==
    IF ws.name \in DOMAIN schedule_.wellgroup_events
    THEN [ws EXCEPT !.events = schedule_.wellgroup_events[ws.name]]
    ELSE ws

\* faulty variant: every connection gets the whole rate of the well
RatesPerConnection_Undivided(surface_rates, num_perf, global_num_perf_this_well) ==
    [k \in 0..(numPhases * num_perf - 1) |-> surface_rates[k % numPhases]]

\* the well rates divided by the number of open connections of the well
RatesPerConnection(surface_rates, num_perf, global_num_perf_this_well) ==
    [k \in 0..(numPhases * num_perf - 1) |->
        surface_rates[k % numPhases] \div global_num_perf_this_well]

\* lines 235-252
InitPerfData(ws, well, cellPressures_) ==
    LET num_perf_this_well == PerfSize(ws.perf_data)
        global_num_perf_this_well == well.num_open
    IN  [ws EXCEPT
            !.perf_data.phase_rates =
                IF well.status = "OPEN"
                THEN RatesPerConnection(ws.surface_rates, num_perf_this_well,
                                        global_num_perf_this_well)
                ELSE @,
            !.perf_data.pressure =
                [perf \in 0..(num_perf_this_well - 1) |->
                    cellPressures_[ws.perf_data.cell_index[perf]]]]

\* lines 254-264
ApplyControlMode(ws, well) ==
    IF well.isProducer
    THEN [ws EXCEPT !.production_cmode = well.cmode]
    ELSE [ws EXCEPT !.injection_cmode = well.cmode]

\* faulty variant: a stopped well is shut
ApplyStatus_StopAsShut(ws, well) ==
    CASE well.status = "SHUT" -> shut(ws)
      [] well.status = "STOP" -> shut(ws)
      [] OTHER -> open(ws)

\* lines 267-281 (shutWell, stopWell, openWell on the well's state)
ApplyStatus(ws, well) ==
    CASE well.status = "SHUT" -> shut(ws)
      [] well.status = "STOP" -> stop(ws)
      [] OTHER -> open(ws)

\* faulty variant: the surface rates of the previous state are not taken over
CopyPrevious_NoRates(new_well, prev_well, well) ==
    [new_well EXCEPT !.reservoir_rates = prev_well.reservoir_rates,
                     !.well_potentials = prev_well.well_potentials,
                     !.productivity_index = prev_well.productivity_index]

\* faulty variant: the rates of the connections are never derived again
CopyPrevious_NoRedistribution(new_well, prev_well, well) ==
    [new_well EXCEPT !.surface_rates = prev_well.surface_rates,
                     !.reservoir_rates = prev_well.reservoir_rates,
                     !.well_potentials = prev_well.well_potentials,
                     !.productivity_index = prev_well.productivity_index,
                     !.perf_data = try_assign(@, prev_well.perf_data)]

\* faulty variant: the previous control modes are kept whatever the events
CopyPrevious_IgnoresEvents(new_well, prev_well, well) ==
    LET w2 == [new_well EXCEPT !.injection_cmode = prev_well.injection_cmode,
                               !.production_cmode = prev_well.production_cmode,
                               !.surface_rates = prev_well.surface_rates,
                               !.reservoir_rates = prev_well.reservoir_rates,
                               !.well_potentials = prev_well.well_potentials,
                               !.productivity_index = prev_well.productivity_index]
    IN  IF PerfSize(w2.perf_data) = PerfSize(prev_well.perf_data)
        THEN [w2 EXCEPT !.perf_data = try_assign(@, prev_well.perf_data)]
        ELSE [w2 EXCEPT !.perf_data.phase_rates =
                  RatesPerConnection(w2.surface_rates, PerfSize(w2.perf_data),
                                     well.num_open)]

\* lines 303-343: the values taken over from the previous state of the well
CopyPrevious(new_well, prev_well, well) ==
    LET w1 == IF ~hasEvent(new_well.events, event_mask)
              THEN [new_well EXCEPT !.injection_cmode = prev_well.injection_cmode,
                                    !.production_cmode = prev_well.production_cmode]
              ELSE new_well
        w2 == [w1 EXCEPT !.surface_rates = prev_well.surface_rates,
                         !.reservoir_rates = prev_well.reservoir_rates,
                         !.well_potentials = prev_well.well_potentials]
        num_perf_old_well == PerfSize(prev_well.perf_data)
        num_perf_this_well == PerfSize(w2.perf_data)
        w3 == IF num_perf_this_well = num_perf_old_well
              THEN [w2 EXCEPT !.perf_data = try_assign(@, prev_well.perf_data)]
              ELSE [w2 EXCEPT !.perf_data.phase_rates =
                        RatesPerConnection(w2.surface_rates, num_perf_this_well,
                                           well.num_open)]
    IN  [w3 EXCEPT !.productivity_index = prev_well.productivity_index]

\* faulty variant: the THP of the previous container is never reset
ResetThp_Never(new_well, well) ==
    new_well

\* lines 346-355
ResetThp(new_well, well) ==
    IF ~well.has_thp THEN [new_well EXCEPT !.thp = 0] ELSE new_well

\* faulty variant: a well that changed its role takes over the previous values
CarryOverWell_NoRoleCheck(new_well, well, prev) ==
    LET old_index == IndexOf(prev, well.name)
    IN  IF well.status = "SHUT"
        THEN new_well
        ELSE IF old_index = 0
        THEN ResetThp(new_well, well)
        ELSE LET prev_well == prev[old_index]
                 w1 == init_timestep(new_well, prev_well)
             IN  IF prev_well.status = "SHUT"
                 THEN w1
                 ELSE ResetThp(CopyPrevious(w1, prev_well, well), well)

\* faulty variant: a well that is SHUT this step takes over the previous values
CarryOverWell_NoShutCheck(new_well, well, prev) ==
    LET old_index == IndexOf(prev, well.name)
    IN  IF old_index = 0
        THEN ResetThp(new_well, well)
        ELSE LET prev_well == prev[old_index]
                 w1 == init_timestep(new_well, prev_well)
             IN  IF prev_well.status = "SHUT"
                 THEN w1
                 ELSE IF w1.producer # prev_well.producer
                 THEN w1
                 ELSE ResetThp(CopyPrevious(w1, prev_well, well), well)

\* lines 286-356, one iteration of the loop
CarryOverWell(new_well, well, prev) ==
    LET old_index == IndexOf(prev, well.name)
    IN  IF well.status = "SHUT"
        THEN new_well
        ELSE IF old_index = 0
        THEN ResetThp(new_well, well)
        ELSE LET prev_well == prev[old_index]
                 w1 == init_timestep(new_well, prev_well)
             IN  IF prev_well.status = "SHUT"
                 THEN w1
                 ELSE IF w1.producer # prev_well.producer
                 THEN w1
                 ELSE ResetThp(CopyPrevious(w1, prev_well, well), well)

\* line 285: the previous container is used when it is given and holds a well
UsesPrevious(prev) ==
    prev.given /\ Len(prev.wells) > 0

\* ALQState::update_default, for every producer (updateWellsDefaultALQ)
updateWellsDefaultALQ(alq_state_, wells) ==
    LET producers == {wells[i].name : i \in {j \in 1..Len(wells) : wells[j].isProducer}}
    IN  [n \in (DOMAIN alq_state_) \cup producers |->
            IF n \in producers THEN wells[IndexOf(wells, n)].alq_value ELSE alq_state_[n]]

\* GlobalWellInfo(schedule, report_step, wells_ecl)
NewGlobalWellInfo(schedule_, report_step_, wells) ==
    [wellNames |-> schedule_.wellNames,
     local     |-> [i \in 1..Len(wells) |-> wells[i].name]]

\* lines 226-357 on the container base_init built: each loop runs over the
\* wells of the list, this->well(w) for w < nw
InitWells(container, cellPressures_, schedule_, wells, prev) ==
    LET nw == Len(wells)
        s1 == [w \in DOMAIN container |->
                IF w <= nw THEN ApplyEvents(container[w], schedule_) ELSE container[w]]
        s2 == [w \in DOMAIN s1 |->
                IF w <= nw THEN InitPerfData(s1[w], wells[w], cellPressures_) ELSE s1[w]]
        s3 == [w \in DOMAIN s2 |->
                IF w <= nw THEN ApplyControlMode(s2[w], wells[w]) ELSE s2[w]]
        s4 == [w \in DOMAIN s3 |->
                IF w <= nw THEN ApplyStatus(s3[w], wells[w]) ELSE s3[w]]
    IN  IF UsesPrevious(prev)
        THEN [w \in DOMAIN s4 |->
                IF w <= nw THEN CarryOverWell(s4[w], wells[w], prev.wells) ELSE s4[w]]
        ELSE s4

\* WellState::init, as the new values of the members it writes; threw: the
\* call ended with the exception of initSingleWell
init(cellPressures_, schedule_, wells, report_step_, prev, old) ==
    LET based == base_init(cellPressures_, wells)
    IN  IF \E w \in 1..Len(wells) : InvalidWell(wells[w])
        THEN [old EXCEPT !.wells_ = based, !.threw = TRUE]
        ELSE [wells_           |-> IF Len(wells) = 0
                                   THEN based
                                   ELSE InitWells(based, cellPressures_, schedule_, wells, prev),
              well_rates       |-> UpdateWellRates(old.well_rates, schedule_, wells),
              alq_state        |-> IF Len(wells) = 0
                                   THEN old.alq_state
                                   ELSE updateWellsDefaultALQ(old.alq_state, wells),
              global_well_info |-> NewGlobalWellInfo(schedule_, report_step_, wells),
              threw            |-> FALSE]

\* the members of the container init writes
Members ==
    [wells_ |-> wells_, well_rates |-> well_rates, alq_state |-> alq_state,
     global_well_info |-> global_well_info, threw |-> FALSE]

---------------------------------------------------------------------------
(* WellState::calculateSegmentRates and WellState::initWellStateMSWell.    *)

\* WellSegments::segmentNumberToIndex
segmentNumberToIndex(segment_set, segment_number) ==
    (CHOOSE i \in 1..Len(segment_set) : segment_set[i].segmentNumber = segment_number) - 1

\* lines 609-617: the open connections of every segment, by their position
\* among the open connections of the well
RECURSIVE SegmentPerforationsFrom(_, _, _, _, _)
SegmentPerforationsFrom(segment_set, completion_set, perf, n_activeperf, acc) ==
    IF perf > Len(completion_set)
    THEN [segment_perforations |-> acc, n_activeperf |-> n_activeperf]
    ELSE IF completion_set[perf].open
    THEN LET segment_index ==
                 segmentNumberToIndex(segment_set, completion_set[perf].segment)
         IN  SegmentPerforationsFrom(segment_set, completion_set, perf + 1,
                 n_activeperf + 1,
                 [acc EXCEPT ![segment_index] = Append(@, n_activeperf)])
    ELSE SegmentPerforationsFrom(segment_set, completion_set, perf + 1, n_activeperf, acc)

SegmentPerforations(segment_set, completion_set) ==
    SegmentPerforationsFrom(segment_set, completion_set, 1, 0,
                            [seg \in 0..(Len(segment_set) - 1) |-> << >>])

\* lines 619-629: the segments that have the segment as their outlet
RECURSIVE SegmentInletsFrom(_, _, _)
SegmentInletsFrom(segment_set, seg, acc) ==
    IF seg > Len(segment_set) - 1
    THEN acc
    ELSE LET segment == segment_set[seg + 1]
         IN  IF segment.outletSegment > 0
             THEN LET segment_index ==
                          segmentNumberToIndex(segment_set, segment.segmentNumber)
                      outlet_segment_index ==
                          segmentNumberToIndex(segment_set, segment.outletSegment)
                  IN  SegmentInletsFrom(segment_set, seg + 1,
                          [acc EXCEPT ![outlet_segment_index] = Append(@, segment_index)])
             ELSE SegmentInletsFrom(segment_set, seg + 1, acc)

SegmentInlets(segment_set) ==
    SegmentInletsFrom(segment_set, 0, [seg \in 0..(Len(segment_set) - 1) |-> << >>])

\* lines 717-721: the contributions of the perforations of the segment
RECURSIVE AddPerforations(_, _, _, _, _, _)
AddPerforations(perfs, k, perforation_rates_, np, segment, segment_rates_) ==
    IF k > Len(perfs)
    THEN segment_rates_
    ELSE AddPerforations(perfs, k + 1, perforation_rates_, np, segment,
            [i \in DOMAIN segment_rates_ |->
                IF i \in (np * segment)..(np * segment + np - 1)
                THEN segment_rates_[i] + perforation_rates_[np * perfs[k] + (i - np * segment)]
                ELSE segment_rates_[i]])

\* faulty variant: the inlet segments are not visited
calculateSegmentRates_NoInlets(segment_inlets_, segment_perforations_, perforation_rates_, np, segment, segment_rates_) ==
    AddPerforations(segment_perforations_[segment], 1, perforation_rates_, np, segment,
                    IF segment = 0
                    THEN Resize(segment_rates_, np * VecLen(segment_inlets_))
                    ELSE segment_rates_)

\* lines 702-728
RECURSIVE calculateSegmentRates(_, _, _, _, _, _)
RECURSIVE AddInlets(_, _, _, _, _, _, _)
calculateSegmentRates(segment_inlets_, segment_perforations_, perforation_rates_, np, segment, segment_rates_) ==
    LET well_nseg == VecLen(segment_inlets_)
        resized == IF segment = 0
                   THEN Resize(segment_rates_, np * well_nseg)
                   ELSE segment_rates_
    IN  AddInlets(segment_inlets_, segment_perforations_, perforation_rates_, np, segment, 1,
                  AddPerforations(segment_perforations_[segment], 1, perforation_rates_,
                                  np, segment, resized))

\* lines 722-727: every inlet segment is computed, then added to the segment
AddInlets(segment_inlets_, segment_perforations_, perforation_rates_, np, segment, k, segment_rates_) ==
    IF k > Len(segment_inlets_[segment])
    THEN segment_rates_
    ELSE LET inlet_seg == segment_inlets_[segment][k]
             computed == calculateSegmentRates(segment_inlets_, segment_perforations_,
                             perforation_rates_, np, inlet_seg, segment_rates_)
         IN  AddInlets(segment_inlets_, segment_perforations_, perforation_rates_, np,
                 segment, k + 1,
                 [i \in DOMAIN computed |->
                     IF i \in (np * segment)..(np * segment + np - 1)
                     THEN computed[i] + computed[np * inlet_seg + (i - np * segment)]
                     ELSE computed[i]])

\* lines 634-644: the gas rates of the open perforations, scaled in place
ScaleGasRates(perf_rates, np, n_activeperf) ==
    LET gaspos == phase_usage_.phase_pos.Vapour
    IN  IF phase_usage_.phase_used.Vapour
        THEN [k \in DOMAIN perf_rates |->
                IF k % np = gaspos /\ k \div np < n_activeperf
                THEN perf_rates[k] * 100
                ELSE perf_rates[k]]
        ELSE perf_rates

\* faulty variant: a segment takes the pressure of its last perforation
RECURSIVE SegmentPressureFrom_LastPerforation(_, _, _, _, _)
SegmentPressureFrom_LastPerforation(segment_set, segment_perforations_, perf_press, seg, segment_pressure) ==
    IF seg > Len(segment_set) - 1
    THEN segment_pressure
    ELSE SegmentPressureFrom_LastPerforation(segment_set, segment_perforations_, perf_press,
            seg + 1,
            [segment_pressure EXCEPT ![seg] =
                IF segment_perforations_[seg] # << >>
                THEN perf_press[segment_perforations_[seg][Len(segment_perforations_[seg])]]
                ELSE segment_pressure[segmentNumberToIndex(segment_set,
                                          segment_set[seg + 1].outletSegment)]])

\* lines 655-671: the pressure of the segments, in the order of their index
RECURSIVE SegmentPressureFrom(_, _, _, _, _)
SegmentPressureFrom(segment_set, segment_perforations_, perf_press, seg, segment_pressure) ==
    IF seg > Len(segment_set) - 1
    THEN segment_pressure
    ELSE SegmentPressureFrom(segment_set, segment_perforations_, perf_press, seg + 1,
            [segment_pressure EXCEPT ![seg] =
                IF segment_perforations_[seg] # << >>
                THEN perf_press[segment_perforations_[seg][1]]
                ELSE segment_pressure[segmentNumberToIndex(segment_set,
                                          segment_set[seg + 1].outletSegment)]])

\* lines 598-672, for one multi-segment well
InitSegments(ws, well_ecl) ==
    LET np == numPhases
        segment_set == well_ecl.segments
        built == SegmentPerforations(segment_set, well_ecl.connections)
        inlets == SegmentInlets(segment_set)
        fresh == NewSegmentState(np, segment_set)
        perf_rates == ScaleGasRates(ws.perf_data.phase_rates, np, built.n_activeperf)
        rates == calculateSegmentRates(inlets, built.segment_perforations, perf_rates,
                                       np, 0, fresh.rates)
        pressure == SegmentPressureFrom(segment_set, built.segment_perforations,
                        ws.perf_data.pressure, 1, [fresh.pressure EXCEPT ![0] = ws.bhp])
    IN  [ws EXCEPT !.perf_data.phase_rates = perf_rates,
                   !.segments = [rates |-> rates, pressure |-> pressure]]

\* lines 676-699, for one well: the segments of the previous state
CopySegments(ws, well, prev_well_state) ==
    IF ~prev_well_state.given \/ well.status = "SHUT" \/ ~well.isMultiSegment
    THEN ws
    ELSE IF IndexOf(prev_well_state.wells, well.name) = 0
    THEN ws
    ELSE LET prev_ws == prev_well_state.wells[IndexOf(prev_well_state.wells, well.name)]
         IN  IF prev_ws.status = "SHUT"
             THEN ws
             ELSE [ws EXCEPT !.segments = prev_ws.segments]

\* WellState::initWellStateMSWell, as the new container
initWellStateMSWell(container, wells, prev_well_state) ==
    LET nw == Len(wells)
        s1 == [w \in DOMAIN container |->
                IF w <= nw /\ wells[w].isMultiSegment
                THEN InitSegments(container[w], wells[w])
                ELSE container[w]]
    IN  [w \in DOMAIN s1 |->
            IF w <= nw THEN CopySegments(s1[w], wells[w], prev_well_state) ELSE s1[w]]

---------------------------------------------------------------------------
(* WellState::communicateGroupRates.                                       *)

RECURSIVE SumSeq(_)
SumSeq(s) ==
    IF s = << >> THEN 0 ELSE Head(s) + SumSeq(Tail(s))

\* the order in which std::map iterates over the names of well_rates
NameOrder ==
    <<"W1", "W2">>

MapOrder(well_rates_) ==
    SelectSeq(NameOrder, LAMBDA n : n \in DOMAIN well_rates_)

\* faulty variant: every process contributes its local rates
RECURSIVE PackRates_NoOwnerCheck(_, _)
PackRates_NoOwnerCheck(well_rates_, names) ==
    IF names = << >>
    THEN << >>
    ELSE LET owner_rates == well_rates_[Head(names)]
         IN  [k \in 1..VecLen(owner_rates.rates) |-> owner_rates.rates[k - 1]]
                 \o PackRates_NoOwnerCheck(well_rates_, Tail(names))

\* lines 773-782: the values a process contributes, in the order of the map
RECURSIVE PackRates(_, _)
PackRates(well_rates_, names) ==
    IF names = << >>
    THEN << >>
    ELSE LET owner_rates == well_rates_[Head(names)]
         IN  [k \in 1..VecLen(owner_rates.rates) |->
                    IF owner_rates.owner THEN owner_rates.rates[k - 1] ELSE 0]
                 \o PackRates(well_rates_, Tail(names))

\* ALQState::pack_data: the payload follows the rates
pack_data(alq_payload) ==
    [k \in 1..VecLen(alq_payload) |-> alq_payload[k - 1]]

\* lines 760-784: the buffer of one process
PackedData(well_rates_, alq_payload) ==
    VecOf(PackRates(well_rates_, MapOrder(well_rates_)) \o pack_data(alq_payload))

\* comm.sum: every process receives the element-wise sum of the buffers
sum(buffers) ==
    [i \in DOMAIN buffers[1] |-> SumSeq([r \in 1..Len(buffers) |-> buffers[r][i]])]

\* lines 789-796: the rates of every well, read back in the order of the map
RECURSIVE UnpackRates(_, _, _, _)
UnpackRates(well_rates_, names, data, pos) ==
    IF names = << >>
    THEN [well_rates |-> well_rates_, pos |-> pos]
    ELSE LET sz == VecLen(well_rates_[Head(names)].rates)
         IN  UnpackRates([well_rates_ EXCEPT ![Head(names)].rates =
                                [k \in 0..(sz - 1) |-> data[pos + k]]],
                         Tail(names), data, pos + sz)

\* ALQState::unpack_data: the payload is read back from the buffer
unpack_data(alq_payload, data, pos) ==
    [k \in DOMAIN alq_payload |-> data[pos + k]]

\* lines 756-799, on every process of the communicator
communicateGroupRates(ranks_well_rates, ranks_alq) ==
    LET data == sum([r \in DOMAIN ranks_well_rates |->
                        PackedData(ranks_well_rates[r], ranks_alq[r])])
        Unpacked(r) == UnpackRates(ranks_well_rates[r], MapOrder(ranks_well_rates[r]),
                                   data, 0)
    IN  [well_rates |-> [r \in DOMAIN ranks_well_rates |-> Unpacked(r).well_rates],
         alq        |-> [r \in DOMAIN ranks_well_rates |->
                            unpack_data(ranks_alq[r], data, Unpacked(r).pos)]]

---------------------------------------------------------------------------
(* WellState::report and WellState::reportConnections.                     *)

\* lines 518-579: the connections of one well, with the rates of the phases
reportConnections(ws, globalCellIdxMap) ==
    LET perf_data == ws.perf_data
        num_perf_well == PerfSize(perf_data)
        np == numPhases
    IN  [i \in 0..(num_perf_well - 1) |->
            [index    |-> globalCellIdxMap[perf_data.cell_index[i]],
             pressure |-> perf_data.pressure[i],
             trans_factor |-> perf_data.connection_transmissibility_factor[i],
             rates    |-> [wat |-> perf_data.phase_rates[np * i + phase_usage_.phase_pos.Aqua],
                           oil |-> perf_data.phase_rates[np * i + phase_usage_.phase_pos.Liquid],
                           gas |-> perf_data.phase_rates[np * i + phase_usage_.phase_pos.Vapour]]]]

\* lines 430-510: the entry of one well
ReportedWell(ws, alq_state_, globalCellIdxMap) ==
    LET wat == phase_usage_.phase_pos.Aqua
        oil == phase_usage_.phase_pos.Liquid
        gas == phase_usage_.phase_pos.Vapour
    IN  [bhp   |-> ws.bhp,
         thp   |-> ws.thp,
         rates |-> [wat |-> ws.surface_rates[wat],
                    oil |-> ws.surface_rates[oil],
                    gas |-> ws.surface_rates[gas],
                    reservoir_water |-> ws.reservoir_rates[wat],
                    reservoir_oil   |-> ws.reservoir_rates[oil],
                    reservoir_gas   |-> ws.reservoir_rates[gas],
                    productivity_index_water |-> ws.productivity_index[wat],
                    productivity_index_oil   |-> ws.productivity_index[oil],
                    productivity_index_gas   |-> ws.productivity_index[gas],
                    well_potential_water |-> ws.well_potentials[wat],
                    well_potential_oil   |-> ws.well_potentials[oil],
                    well_potential_gas   |-> ws.well_potentials[gas],
                    alq |-> IF ws.producer /\ ws.name \in DOMAIN alq_state_
                            THEN alq_state_[ws.name]
                            ELSE 0],
         current_control |-> [isProducer |-> ws.producer,
                              prod |-> ws.production_cmode,
                              inj  |-> ws.injection_cmode],
         connections |-> reportConnections(ws, globalCellIdxMap),
         segments    |-> ws.segments]

\* faulty variant: every SHUT well is left out
report_WithoutShutWells(container, alq_state_, globalCellIdxMap, wasDynamicallyClosed) ==
    LET reported == {i \in 1..Len(container) : container[i].status # "SHUT"}
    IN  [n \in {container[i].name : i \in reported} |->
            ReportedWell(container[IndexOf(container, n)], alq_state_, globalCellIdxMap)]

\* lines 412-515: the wells are visited in the order of the container; insert
\* keeps the first entry of a name
report(container, alq_state_, globalCellIdxMap, wasDynamicallyClosed) ==
    IF Len(container) = 0
    THEN [n \in {} |-> 0]
    ELSE LET reported ==
                 {i \in 1..Len(container) :
                     ~(container[i].status = "SHUT" /\ ~wasDynamicallyClosed[i - 1])}
             First(n) == CHOOSE i \in reported :
                            /\ container[i].name = n
                            /\ \A j \in reported : container[j].name = n => i <= j
         IN  [n \in {container[i].name : i \in reported} |->
                 ReportedWell(container[First(n)], alq_state_, globalCellIdxMap)]

---------------------------------------------------------------------------
(* WellState::resetConnectionTransFactors.                                 *)

\* faulty variant: the saturation regions are not compared
RECURSIVE ResetFactorsFrom_NoSatnumCheck(_, _, _)
ResetFactorsFrom_NoSatnumCheck(perf_data, new_perf_data, conn_index) ==
    IF conn_index >= Len(new_perf_data)
    THEN [perf_data |-> perf_data, threw |-> FALSE]
    ELSE IF perf_data.cell_index[conn_index] # new_perf_data[conn_index + 1].cell_index
    THEN [perf_data |-> perf_data, threw |-> TRUE]
    ELSE ResetFactorsFrom_NoSatnumCheck(
            [perf_data EXCEPT !.connection_transmissibility_factor[conn_index] =
                new_perf_data[conn_index + 1].connection_transmissibility_factor],
            new_perf_data, conn_index + 1)

\* lines 903-923: the connections in order, up to the first that differs
RECURSIVE ResetFactorsFrom(_, _, _)
ResetFactorsFrom(perf_data, new_perf_data, conn_index) ==
    IF conn_index >= Len(new_perf_data)
    THEN [perf_data |-> perf_data, threw |-> FALSE]
    ELSE IF perf_data.cell_index[conn_index] # new_perf_data[conn_index + 1].cell_index
    THEN [perf_data |-> perf_data, threw |-> TRUE]
    ELSE IF perf_data.satnum_id[conn_index] # new_perf_data[conn_index + 1].satnum_id
    THEN [perf_data |-> perf_data, threw |-> TRUE]
    ELSE ResetFactorsFrom(
            [perf_data EXCEPT !.connection_transmissibility_factor[conn_index] =
                new_perf_data[conn_index + 1].connection_transmissibility_factor],
            new_perf_data, conn_index + 1)

\* lines 891-924, as the new container and whether the call threw
resetConnectionTransFactors(container, well_index, new_perf_data) ==
    LET perf_data == container[well_index + 1].perf_data
        r == ResetFactorsFrom(perf_data, new_perf_data, 0)
    IN  IF PerfSize(perf_data) # Len(new_perf_data)
        THEN [wells_ |-> container, threw |-> TRUE]
        ELSE [wells_ |-> [container EXCEPT ![well_index + 1].perf_data = r.perf_data],
              threw  |-> r.threw]

---------------------------------------------------------------------------
(* WellState::stopWell, openWell, shutWell and updateStatus.               *)

\* lines 730-734
stopWell(container, well_index) ==
    [container EXCEPT ![well_index + 1] = stop(@)]

\* lines 736-740
openWell(container, well_index) ==
    [container EXCEPT ![well_index + 1] = open(@)]

\* lines 742-746
shutWell(container, well_index) ==
    [container EXCEPT ![well_index + 1] = shut(@)]

\* lines 748-752
updateStatus(container, well_index, status) ==
    [container EXCEPT ![well_index + 1] = updateStatusOf(@, status)]

---------------------------------------------------------------------------
(* WellStateFullyImplicitBlackoilDense::setWellSolutions.                  *)
(* A real number is a fraction [num, den] that is never reduced; rates and *)
(* pressures are integers, the weights g and comp_frac are hundredths.     *)

Fraction(num, den) ==
    [num |-> num, den |-> den]

SameValue(a, b) ==
    a.num * b.den = b.num * a.den

\* operator+= of two reals
Plus(a, b) ==
    Fraction(a.num * b.den + b.num * a.den, a.den * b.den)

\* line 94: g = {1.0, 1.0, 0.01}, in hundredths
g ==
    [p \in 0..2 |-> IF p = 2 THEN 1 ELSE 100]

\* BlackoilPhases: the indices Water and Gas used at lines 129-148
Water == 0
Gas == 2

\* faulty variant: the current control of the Wells struct is used
ControlTypeOf_OfStruct(wc, current) ==
    wc.type[wc.current]

\* line 105: well_controls_iget_type(wc, current)
ControlTypeOf(wc, current) ==
    wc.type[current]

\* lines 109-115: the rates of the well weighted by comp_frac (injector) or
\* by g (producer), in hundredths
WeightedWellRate(d, np, w) ==
    IF d.wells_.type[w] = "INJECTOR"
    THEN SumSeq([k \in 1..np |-> d.wellRates[np * w + k - 1] * d.wells_.comp_frac[np * w + k - 1]])
    ELSE SumSeq([k \in 1..np |-> g[k - 1] * d.wellRates[np * w + k - 1]])

\* lines 124-127: total_rates, in hundredths
TotalRates(d, np, w) ==
    SumSeq([k \in 1..np |-> g[k - 1] * d.wellRates[np * w + k - 1]])

\* line 132: the condition of the assert
AssertHolds(pu, np) ==
    np > 2 \/ (np = 2 /\ ~pu.phase_used.Gas)

\* wellSolutions()[index] = value; a write past the end of the vector does
\* not reach any of its entries
WriteSolution(d, index, value) ==
    [d EXCEPT !.well_solutions_ = IF index \in DOMAIN @
                                  THEN [@ EXCEPT ![index] = value]
                                  ELSE @,
              !.written = @ \cup {index}]

\* lines 96-122: the control of the well and its first entry
PrimaryEntry(d, np, w) ==
    LET wc == d.wells_.ctrls[w]
        current == d.currentControls[w]
        d1 == [d EXCEPT !.wells_.ctrls[w].current = current]
        type == ControlTypeOf(wc, current)
    IN  CASE type \in {"THP", "BHP"} ->
                WriteSolution(d1, w, Plus(d1.well_solutions_[w],
                                          Fraction(WeightedWellRate(d1, np, w), 100)))
          [] type \in {"RESERVOIR_RATE", "SURFACE_RATE"} ->
                WriteSolution(d1, w, Fraction(d1.bhp[w], 1))
          [] OTHER -> d1

\* lines 134-150: the water and gas fractions of the well
FractionEntries(d, pu, nw, np, w) ==
    LET total_rates == TotalRates(d, np, w)
        waterpos == pu.phase_pos.Water
        gaspos == pu.phase_pos.Gas
        water == IF total_rates # 0
                 THEN Fraction(g[Water] * d.wellRates[np * w + waterpos], total_rates)
                 ELSE Fraction(d.wells_.comp_frac[np * w + waterpos], 100)
        gas == IF total_rates # 0
               THEN Fraction(g[Gas] * d.wellRates[np * w + gaspos], total_rates)
               ELSE Fraction(d.wells_.comp_frac[np * w + gaspos], 100)
        d1 == IF pu.phase_used.Water THEN WriteSolution(d, nw + w, water) ELSE d
    IN  IF pu.phase_used.Gas THEN WriteSolution(d1, 2 * nw + w, gas) ELSE d1

\* lines 95-151: the wells in order; a build with assertions stops at line 132
RECURSIVE WellSolutionsFrom(_, _, _, _, _, _)
WellSolutionsFrom(d, pu, nw, np, w, ndebug) ==
    IF w >= nw
    THEN [dense |-> d, aborted |-> FALSE]
    ELSE LET d1 == PrimaryEntry(d, np, w)
         IN  IF ~AssertHolds(pu, np) /\ ~ndebug
             THEN [dense |-> d1, aborted |-> TRUE]
             ELSE WellSolutionsFrom(FractionEntries(d1, pu, nw, np, w), pu, nw, np,
                                    w + 1, ndebug)

\* lines 81-152, as the new dense state and whether an assertion stopped it
setWellSolutions(d, pu, ndebug) ==
    IF ~d.wells_.given
    THEN [dense |-> d, aborted |-> FALSE]
    ELSE IF d.wells_.number_of_wells = 0
    THEN [dense |-> d, aborted |-> FALSE]
    ELSE LET nw == d.wells_.number_of_wells
             np == d.wells_.number_of_phases
         IN  WellSolutionsFrom(
                 [d EXCEPT !.well_solutions_ = [i \in 0..(nw * np - 1) |-> Fraction(0, 1)]],
                 pu, nw, np, 0, ndebug)

---------------------------------------------------------------------------
(* Inputs: well definitions, perforation data and parallel well info.      *)

WellNames ==
    {"W1", "W2"}

\* pressure of the grid cells 0, 1, 2
CellPressureFields ==
    {VecOf(<<21000, 10000, 15000>>)}

\* a producer under ORAT with one local connection, which is its only one
BaseWell(name) ==
    [name |-> name, isInjector |-> FALSE, isProducer |-> TRUE,
     status |-> "OPEN", cmode |-> "ORAT", injector_type |-> "WATER",
     surface_rate |-> 24, oil_rate |-> 6, water_rate |-> 12, gas_rate |-> 18,
     bhp_limit |-> 20000, has_thp |-> FALSE, thp_limit |-> 3000, alq_value |-> 0,
     perf_cells |-> <<0>>, num_open |-> 1,
     first_perf_local |-> TRUE, remote_first_value |-> 15000, isOwner |-> TRUE,
     isMultiSegment |-> FALSE, segments |-> << >>, connections |-> << >>]

\* role and control: (isInjector, cmode, injector_type)
ProducerControls ==
    {<<FALSE, c, "WATER">> : c \in {"ORAT", "WRAT", "GRAT", "LRAT", "BHP", "GRUP"}}

InjectorControls ==
    {<<TRUE, "RATE", t>> : t \in {"WATER", "GAS", "OIL", "MULTI"}}
        \cup {<<TRUE, c, "WATER">> : c \in {"BHP", "GRUP"}}

\* local connections of the well on this process and its open connections
\* overall: (perf_cells, num_open, first_perf_local, isOwner)
ConnectionViews ==
    { << << >>, 1, FALSE, FALSE >>,
      << <<0>>, 1, TRUE, TRUE >>,
      << <<1, 0>>, 2, TRUE, TRUE >>,
      << <<1>>, 2, FALSE, FALSE >> }

WellWith(name, ctrl, status, view, has_thp) ==
    [BaseWell(name) EXCEPT
        !.isInjector = ctrl[1], !.isProducer = ~ctrl[1],
        !.cmode = ctrl[2], !.injector_type = ctrl[3],
        !.status = status, !.has_thp = has_thp,
        !.perf_cells = view[1], !.num_open = view[2],
        !.first_perf_local = view[3], !.isOwner = view[4]]

ScheduleOf(names, events) ==
    [wellNames |-> names, wellgroup_events |-> events]

NoEvents ==
    [n \in {} |-> {}]

StepOf(cp, sched, wells) ==
    [cellPressures |-> cp, schedule |-> sched, wells_ecl |-> wells]

\* the wells of a first report step: every control, status and connection view
FreshWells ==
    {WellWith("W1", ctrl, status, view, has_thp) :
        ctrl \in ProducerControls \cup InjectorControls,
        status \in {"OPEN", "STOP", "SHUT", "AUTO"},
        view \in ConnectionViews,
        has_thp \in BOOLEAN}

\* a second well of the list
Companions ==
    {WellWith("W2", <<TRUE, "GRUP", "WATER">>, "OPEN", << <<1, 0>>, 2, TRUE, TRUE >>, FALSE)}

FreshWellLists ==
    {<< >>} \cup {<<a>> : a \in FreshWells}
        \cup {<<b, a>> : a \in FreshWells, b \in Companions}

FreshSteps ==
    {StepOf(cp, ScheduleOf(names, NoEvents), wells) :
        cp \in CellPressureFields,
        wells \in FreshWellLists,
        names \in {WellNames}}

---------------------------------------------------------------------------
(* The container after construction, and the calls of init.                *)

EmptySchedule ==
    ScheduleOf({}, NoEvents)

NoRanks ==
    << >>

\* a call that returns no value
NoResult ==
    [threw |-> FALSE, value |-> << >>]

\* a Wells pointer that is null
NoWells ==
    [given |-> FALSE]

\* the dense state after construction: no wells, no well solutions
EmptyDense ==
    [wells_ |-> NoWells, wellRates |-> << >>, bhp |-> << >>,
     currentControls |-> << >>, well_solutions_ |-> << >>, written |-> {}]

ConstructedContainer ==
    /\ report_step = 0
    /\ prevState = NoPrev
    /\ wells_ = << >>
    /\ well_rates = [n \in {} |-> 0]
    /\ alq_state = [n \in {} |-> 0]
    /\ global_well_info = NewGlobalWellInfo(EmptySchedule, 0, << >>)
    /\ returned = NoResult
    /\ dense = EmptyDense

IdleComm ==
    /\ rank_well_rates = NoRanks
    /\ rank_alq = NoRanks
    /\ rank_pre = NoRanks

IdleSeg ==
    /\ segment_inlets = << >>
    /\ segment_perforations = << >>
    /\ perforation_rates = << >>
    /\ segment_rates = << >>

\* a container constructed for the wells of a first report step
Init ==
    /\ ConstructedContainer
    /\ \E step \in FreshSteps :
          /\ cellPressures = step.cellPressures
          /\ schedule = step.schedule
          /\ wells_ecl = step.wells_ecl
    /\ last = [op |-> "construct", again |-> FALSE]
    /\ IdleComm
    /\ IdleSeg

\* WellState::init on the inputs of the step, with the previous container
\* the simulator holds
InitCall ==
    /\ \E r \in {init(cellPressures, schedule, wells_ecl, report_step, prevState, Members)} :
           /\ wells_' = r.wells_
           /\ well_rates' = r.well_rates
           /\ alq_state' = r.alq_state
           /\ global_well_info' = r.global_well_info
           /\ last' = [op |-> IF r.threw THEN "init_threw" ELSE "init",
                       again |-> last.op = "init"]
    /\ UNCHANGED << report_step, cellPressures, schedule, wells_ecl, prevState >>
    /\ UNCHANGED commVars
    /\ UNCHANGED segVars
    /\ UNCHANGED << returned, dense >>

Next ==
    InitCall

Spec ==
    Init /\ [][Next]_vars

---------------------------------------------------------------------------
(* Report steps with carry-over from the previous container.               *)

ControlEvents ==
    {NoEvents, [n \in {"W1"} |-> {"PRODUCTION_UPDATE"}]}

\* the wells of a step that follows another: open, stopped and shut wells of
\* both roles, under a rate target or under group control
CarryWells ==
    {WellWith("W1", ctrl, status, view, FALSE) :
        ctrl \in {<<FALSE, "ORAT", "WATER">>, <<FALSE, "GRUP", "WATER">>,
                  <<TRUE, "RATE", "WATER">>},
        status \in {"OPEN", "STOP", "SHUT"},
        view \in {<< <<0>>, 1, TRUE, TRUE >>, << <<1, 0>>, 2, TRUE, TRUE >>}}

CarryWellLists ==
    {<< >>} \cup {<<a>> : a \in CarryWells} \cup {<<b>> : b \in Companions}
        \cup {<<b, a>> : a \in {c \in CarryWells : c.perf_cells = <<0>> /\ c.isProducer},
                         b \in Companions}

CarrySteps ==
    {StepOf(cp, ScheduleOf(WellNamesOf(wells), events), wells) :
        cp \in CellPressureFields,
        wells \in CarryWellLists,
        events \in ControlEvents}

\* the values the solver leaves in a well it has solved
SolvedWell(ws) ==
    LET sign == IF ws.producer THEN 0 - 1 ELSE 1
        rates == [p \in 0..(numPhases - 1) |-> sign * 6 * (p + 5)]
    IN  [ws EXCEPT !.surface_rates = rates,
                   !.reservoir_rates = [p \in 0..(numPhases - 1) |-> sign * (p + 1)],
                   !.well_potentials = [p \in 0..(numPhases - 1) |-> p + 7],
                   !.productivity_index = [p \in 0..(numPhases - 1) |-> p + 4],
                   !.bhp = 17000,
                   !.perf_data.phase_rates =
                        [k \in DOMAIN @ |-> IF k < numPhases THEN rates[k] ELSE 0]]

\* the container after construction, before the first report step
InitCarry ==
    /\ ConstructedContainer
    /\ cellPressures = CHOOSE cp \in CellPressureFields : TRUE
    /\ schedule = EmptySchedule
    /\ wells_ecl = << >>
    /\ last = [op |-> "construct", again |-> FALSE]
    /\ IdleComm
    /\ IdleSeg

\* a report step begins: the simulator passes the container of the previous
\* step (or none) and the wells of the new step to init
BeginReportStep(Steps) ==
    /\ report_step < MaxSteps
    /\ \E step \in Steps, usePrev \in BOOLEAN :
          \E prev \in {IF usePrev THEN Previous(wells_) ELSE NoPrev} :
          \E r \in {init(step.cellPressures, step.schedule, step.wells_ecl,
                        report_step + 1, prev, Members)} :
              /\ report_step' = report_step + 1
              /\ cellPressures' = step.cellPressures
              /\ schedule' = step.schedule
              /\ wells_ecl' = step.wells_ecl
              /\ prevState' = prev
              /\ wells_' = r.wells_
              /\ well_rates' = r.well_rates
              /\ alq_state' = r.alq_state
              /\ global_well_info' = r.global_well_info
              /\ last' = [op |-> IF r.threw THEN "init_threw" ELSE "init", again |-> FALSE]
    /\ UNCHANGED commVars
    /\ UNCHANGED segVars
    /\ UNCHANGED << returned, dense >>

\* the solver mutates the rates and pressures of the wells that are not shut
SolverUpdate ==
    /\ last.op \in {"init", "initWellStateMSWell"}
    /\ Len(wells_) > 0
    /\ wells_' = [w \in DOMAIN wells_ |->
                    IF wells_[w].status = "SHUT" THEN wells_[w] ELSE SolvedWell(wells_[w])]
    /\ last' = [op |-> "solve", again |-> FALSE]
    /\ UNCHANGED << report_step, cellPressures, schedule, wells_ecl, prevState,
                    well_rates, alq_state, global_well_info >>
    /\ UNCHANGED commVars
    /\ UNCHANGED segVars
    /\ UNCHANGED << returned, dense >>

BeginCarryStep ==
    BeginReportStep(CarrySteps)

NextCarry ==
    \/ BeginCarryStep
    \/ SolverUpdate

SpecCarry ==
    InitCarry /\ [][NextCarry]_vars

---------------------------------------------------------------------------
(* Report steps of multi-segment wells: init, then initWellStateMSWell.    *)

Segment(number, outlet) ==
    [segmentNumber |-> number, outletSegment |-> outlet]

Connection(is_open, segment_number) ==
    [open |-> is_open, segment |-> segment_number]

\* segments and connections of a multi-segment well: a chain, a fork whose
\* first branch has no connection, a segment whose outlet follows it in the
\* list, a well whose first connection is shut, and a chain whose last
\* segment has no connection
Completions ==
    { [segments |-> <<Segment(1, 0), Segment(2, 1), Segment(3, 2)>>,
       connections |-> <<Connection(TRUE, 2), Connection(TRUE, 3)>>],
      [segments |-> <<Segment(1, 0), Segment(2, 1), Segment(3, 1)>>,
       connections |-> <<Connection(TRUE, 3), Connection(TRUE, 3)>>],
      [segments |-> <<Segment(1, 0), Segment(2, 3), Segment(3, 1)>>,
       connections |-> <<Connection(TRUE, 3), Connection(TRUE, 1)>>],
      [segments |-> <<Segment(1, 0), Segment(2, 1)>>,
       connections |-> <<Connection(FALSE, 2), Connection(TRUE, 2), Connection(TRUE, 1)>>],
      [segments |-> <<Segment(1, 0), Segment(2, 1), Segment(3, 2)>>,
       connections |-> <<Connection(TRUE, 2), Connection(TRUE, 2)>>] }

MultiSegmentWell(name, ctrl, status, completion) ==
    [WellWith(name, ctrl, status, << <<1, 0>>, 2, TRUE, TRUE >>, FALSE) EXCEPT
        !.isMultiSegment = TRUE,
        !.segments = completion.segments,
        !.connections = completion.connections]

MSWells ==
    {MultiSegmentWell("W1", ctrl, status, completion) :
        ctrl \in {<<FALSE, "GRAT", "WATER">>, <<TRUE, "RATE", "GAS">>},
        status \in {"OPEN", "STOP", "SHUT"},
        completion \in Completions}
      \cup {WellWith("W1", <<FALSE, "GRAT", "WATER">>, "OPEN", << <<1, 0>>, 2, TRUE, TRUE >>, FALSE)}

MSWellLists ==
    {<< >>} \cup {<<a>> : a \in MSWells}

MSSteps ==
    {StepOf(cp, ScheduleOf(WellNamesOf(wells), NoEvents), wells) :
        cp \in CellPressureFields,
        wells \in MSWellLists}

BeginMSStep ==
    BeginReportStep(MSSteps)

\* the simulator calls initWellStateMSWell after init, with the same previous
\* container
InitWellStateMSWell ==
    /\ last.op = "init"
    /\ wells_' = initWellStateMSWell(wells_, wells_ecl, prevState)
    /\ last' = [op |-> "initWellStateMSWell", again |-> FALSE]
    /\ UNCHANGED << report_step, cellPressures, schedule, wells_ecl, prevState,
                    well_rates, alq_state, global_well_info >>
    /\ UNCHANGED commVars
    /\ UNCHANGED segVars
    /\ UNCHANGED << returned, dense >>

NextMS ==
    \/ BeginMSStep
    \/ InitWellStateMSWell
    \/ SolverUpdate

SpecMS ==
    InitCarry /\ [][NextMS]_vars

---------------------------------------------------------------------------
(* calculateSegmentRates on the segment trees of a well.                   *)

\* the index of the outlet of every segment but the top one: the trees in
\* which the top segment is reached from every segment
RECURSIVE LeadsToTop(_, _, _)
LeadsToTop(outlet, seg, hops) ==
    IF seg = 0 THEN TRUE
    ELSE IF hops = 0 THEN FALSE
    ELSE LeadsToTop(outlet, outlet[seg], hops - 1)

OutletMaps(nseg) ==
    {outlet \in [1..(nseg - 1) -> 0..(nseg - 1)] :
        \A seg \in 1..(nseg - 1) : LeadsToTop(outlet, seg, nseg)}

SegmentSetOf(nseg, outlet) ==
    [i \in 1..nseg |-> IF i = 1 THEN Segment(1, 0) ELSE Segment(i, outlet[i - 1] + 1)]

PerfRateChoices ==
    {<<1, 10, 100>>, <<0 - 3, 0, 7>>}

RECURSIVE Flatten(_)
Flatten(ss) ==
    IF ss = << >> THEN << >> ELSE Head(ss) \o Flatten(Tail(ss))

InitSeg ==
    /\ ConstructedContainer
    /\ cellPressures = CHOOSE cp \in CellPressureFields : TRUE
    /\ schedule = EmptySchedule
    /\ wells_ecl = << >>
    /\ last = [op |-> "construct", again |-> FALSE]
    /\ IdleComm
    /\ \E nseg \in 1..MaxSeg, nperf \in 0..MaxPerf :
       \E outlet \in OutletMaps(nseg),
          on \in [1..nperf -> 1..nseg],
          rates \in [1..nperf -> PerfRateChoices],
          zeroed \in BOOLEAN :
           LET segment_set == SegmentSetOf(nseg, outlet)
               completion_set == [k \in 1..nperf |-> Connection(TRUE, on[k])]
           IN  /\ segment_inlets = SegmentInlets(segment_set)
               /\ segment_perforations =
                    SegmentPerforations(segment_set, completion_set).segment_perforations
               /\ perforation_rates = VecOf(Flatten(rates))
               /\ segment_rates = IF zeroed THEN Zeros(numPhases * nseg) ELSE Zeros(0)

CalculateSegmentRates ==
    /\ last.op = "construct"
    /\ segment_rates' = calculateSegmentRates(segment_inlets, segment_perforations,
                            perforation_rates, numPhases, 0, segment_rates)
    /\ last' = [op |-> "calculateSegmentRates", again |-> FALSE]
    /\ UNCHANGED << segment_inlets, segment_perforations, perforation_rates >>
    /\ UNCHANGED initVars
    /\ UNCHANGED commVars
    /\ UNCHANGED << returned, dense >>

NextSeg ==
    CalculateSegmentRates

SpecSeg ==
    InitSeg /\ [][NextSeg]_vars

---------------------------------------------------------------------------
(* communicateGroupRates on the processes of a parallel run.               *)

GroupRateChoices ==
    {VecOf(<<600, 1200, 1800>>), VecOf(<<0 - 600, 0, 2400>>)}

\* the rates a process holds for a well other than the first
LocalRates(r) ==
    [p \in 0..(numPhases - 1) |-> 100 * r + p]

\* every process holds the same well names; the owner flags and the local
\* rates of the processes are arbitrary
InitComm ==
    /\ ConstructedContainer
    /\ cellPressures = CHOOSE cp \in CellPressureFields : TRUE
    /\ schedule = EmptySchedule
    /\ wells_ecl = << >>
    /\ last = [op |-> "construct", again |-> FALSE]
    /\ IdleSeg
    /\ \E nranks \in 1..MaxRanks, names \in (SUBSET WellNames) \ {{}} :
       \E owner \in [1..nranks -> [names -> BOOLEAN]],
          local \in [1..nranks -> GroupRateChoices] :
          /\ rank_well_rates =
                [r \in 1..nranks |-> [n \in names |->
                    [owner |-> owner[r][n],
                     rates |-> IF n = "W1" THEN local[r] ELSE LocalRates(r)]]]
          /\ rank_alq = [r \in 1..nranks |-> VecOf(<<r>>)]
    /\ rank_pre = rank_well_rates

CommunicateGroupRates ==
    /\ last.op = "construct"
    /\ \E r \in {communicateGroupRates(rank_well_rates, rank_alq)} :
          /\ rank_well_rates' = r.well_rates
          /\ rank_alq' = r.alq
    /\ rank_pre' = rank_well_rates
    /\ last' = [op |-> "communicateGroupRates", again |-> FALSE]
    /\ UNCHANGED initVars
    /\ UNCHANGED segVars
    /\ UNCHANGED << returned, dense >>

NextComm ==
    CommunicateGroupRates

SpecComm ==
    InitComm /\ [][NextComm]_vars

---------------------------------------------------------------------------
(* Report steps of wells whose connections and THP limit change.           *)

\* producers and injectors under a rate target, with no connection on this
\* process, with one, with two, or with one of two, with and without a THP
\* limit
WarmStartWells ==
    {WellWith("W1", ctrl, status, view, has_thp) :
        ctrl \in {<<FALSE, "ORAT", "WATER">>, <<TRUE, "RATE", "WATER">>},
        status \in {"OPEN", "STOP", "SHUT"},
        view \in ConnectionViews,
        has_thp \in BOOLEAN}

WarmStartSteps ==
    {StepOf(cp, ScheduleOf(WellNamesOf(wells), NoEvents), wells) :
        cp \in CellPressureFields,
        wells \in {<< >>} \cup {<<a>> : a \in WarmStartWells}}

BeginWarmStep ==
    BeginReportStep(WarmStartSteps)

NextWarm ==
    \/ BeginWarmStep
    \/ SolverUpdate

SpecWarm ==
    InitCarry /\ [][NextWarm]_vars

---------------------------------------------------------------------------
(* init, then report.                                                      *)

\* the global index of every cell of the grid
GlobalCellIndex ==
    [c \in 0..2 |-> 100 + c]

\* the caller asks for a report, with its own record of the wells that were
\* closed in this step
Report ==
    /\ last.op # "report"
    /\ \E wasDynamicallyClosed \in [0..(Len(wells_) - 1) -> BOOLEAN] :
          /\ returned' = [threw |-> FALSE,
                          value |-> report(wells_, alq_state, GlobalCellIndex,
                                           wasDynamicallyClosed)]
          /\ last' = [op |-> "report", again |-> FALSE,
                      wasDynamicallyClosed |-> wasDynamicallyClosed]
    /\ UNCHANGED initVars
    /\ UNCHANGED commVars
    /\ UNCHANGED segVars
    /\ UNCHANGED dense

NextReport ==
    \/ InitCall
    \/ Report

SpecReport ==
    Init /\ [][NextReport]_vars

---------------------------------------------------------------------------
(* init on well lists that hold a well definition initSingleWell rejects.  *)

\* a well that is both injector and producer, and one that is neither
RejectedWells(name) ==
    {[WellWith(name, <<FALSE, "ORAT", "WATER">>, "OPEN", << <<0>>, 1, TRUE, TRUE >>, FALSE)
         EXCEPT !.isInjector = both, !.isProducer = both] : both \in BOOLEAN}

\* the rejected well alone, before a valid well and after one
RejectedWellLists ==
    {<<r>> : r \in RejectedWells("W1")}
        \cup {<<r, a>> : r \in RejectedWells("W2"), a \in FreshWells}
        \cup {<<a, r>> : r \in RejectedWells("W2"), a \in FreshWells}
        \cup {<<b, a>> : a \in {f \in FreshWells : f.has_thp}, b \in Companions}

InitRejected ==
    /\ ConstructedContainer
    /\ \E wells \in RejectedWellLists, cp \in CellPressureFields :
          /\ cellPressures = cp
          /\ schedule = ScheduleOf(WellNames, NoEvents)
          /\ wells_ecl = wells
    /\ last = [op |-> "construct", again |-> FALSE]
    /\ IdleComm
    /\ IdleSeg

SpecRejected ==
    InitRejected /\ [][Next]_vars

---------------------------------------------------------------------------
(* init, then resetConnectionTransFactors.                                 *)

\* a well with every connection view, alone and after a second well
TransSteps ==
    {StepOf(cp, ScheduleOf(WellNames, NoEvents), wells) :
        cp \in CellPressureFields,
        wells \in {<<a>> : a \in {f \in FreshWells : f.cmode = "ORAT" /\ f.status = "OPEN"}}
                    \cup {<<b, a>> : a \in {f \in FreshWells :
                                              f.cmode = "GRAT" /\ f.status = "OPEN" /\ f.has_thp},
                                     b \in Companions}}

\* the perforation lists a caller supplies: up to MaxPerf connections to the
\* cells 0 and 1, with either saturation region and one of two factors
SuppliedPerforations ==
    {PerforationData(cell, factor, satnum) :
        cell \in 0..1, factor \in {10, 77}, satnum \in 1..2}

SuppliedLists ==
    UNION {[1..n -> SuppliedPerforations] : n \in 0..MaxPerf}

InitTrans ==
    /\ ConstructedContainer
    /\ \E step \in TransSteps :
          /\ cellPressures = step.cellPressures
          /\ schedule = step.schedule
          /\ wells_ecl = step.wells_ecl
    /\ last = [op |-> "construct", again |-> FALSE]
    /\ IdleComm
    /\ IdleSeg

ResetConnectionTransFactors ==
    /\ last.op = "init"
    /\ \E well_index \in 0..(Len(wells_) - 1), new_perf_data \in SuppliedLists :
       \E r \in {resetConnectionTransFactors(wells_, well_index, new_perf_data)} :
          /\ wells_' = r.wells_
          /\ returned' = [threw |-> r.threw, value |-> << >>]
          /\ last' = [op |-> "resetConnectionTransFactors", again |-> FALSE,
                      well_index |-> well_index, new_perf_data |-> new_perf_data]
    /\ UNCHANGED << report_step, cellPressures, schedule, wells_ecl, prevState,
                    well_rates, alq_state, global_well_info >>
    /\ UNCHANGED commVars
    /\ UNCHANGED segVars
    /\ UNCHANGED dense

NextTrans ==
    \/ InitCall
    \/ ResetConnectionTransFactors

SpecTrans ==
    InitTrans /\ [][NextTrans]_vars

---------------------------------------------------------------------------
(* Report steps with status changes between them.                          *)

\* an oil producer of every schedule status, with a connection on this
\* process or with none, listed after a second well
StatusSteps ==
    {StepOf(cp, ScheduleOf(WellNamesOf(wells), NoEvents), wells) :
        cp \in CellPressureFields,
        wells \in {<< >>} \cup
                  {<<b, WellWith("W1", <<FALSE, "ORAT", "WATER">>, status, view, FALSE)>> :
                      b \in Companions,
                      status \in {"OPEN", "STOP", "SHUT", "AUTO"},
                      view \in {<< << >>, 1, FALSE, FALSE >>, << <<0>>, 1, TRUE, TRUE >>}}}

BeginStatusStep ==
    BeginReportStep(StatusSteps)

\* what a status operation leaves alone
StatusFrame ==
    /\ UNCHANGED << report_step, cellPressures, schedule, wells_ecl, prevState,
                    well_rates, alq_state, global_well_info >>
    /\ UNCHANGED commVars
    /\ UNCHANGED segVars
    /\ UNCHANGED << returned, dense >>

StopWell ==
    /\ last.op = "init"
    /\ \E well_index \in 0..(Len(wells_) - 1) :
          /\ wells_' = stopWell(wells_, well_index)
          /\ last' = [op |-> "stopWell", again |-> FALSE,
                      well_index |-> well_index, status |-> "STOP"]
    /\ StatusFrame

OpenWell ==
    /\ last.op = "init"
    /\ \E well_index \in 0..(Len(wells_) - 1) :
          /\ wells_' = openWell(wells_, well_index)
          /\ last' = [op |-> "openWell", again |-> FALSE,
                      well_index |-> well_index, status |-> "OPEN"]
    /\ StatusFrame

ShutWell ==
    /\ last.op = "init"
    /\ \E well_index \in 0..(Len(wells_) - 1) :
          /\ wells_' = shutWell(wells_, well_index)
          /\ last' = [op |-> "shutWell", again |-> FALSE,
                      well_index |-> well_index, status |-> "SHUT"]
    /\ StatusFrame

UpdateStatus ==
    /\ last.op = "init"
    /\ \E well_index \in 0..(Len(wells_) - 1), status \in {"OPEN", "STOP", "SHUT"} :
          /\ wells_' = updateStatus(wells_, well_index, status)
          /\ last' = [op |-> "updateStatus", again |-> FALSE,
                      well_index |-> well_index, status |-> status]
    /\ StatusFrame

NextStatus ==
    \/ BeginStatusStep
    \/ StopWell
    \/ OpenWell
    \/ ShutWell
    \/ UpdateStatus

SpecStatus ==
    InitCarry /\ [][NextStatus]_vars

---------------------------------------------------------------------------
(* The legacy dense well state: init, which ends with setWellSolutions.    *)

\* PhaseUsage of a three-phase, an oil-water and an oil-gas run
PhaseUsages ==
    { [num_phases |-> 3,
       phase_used |-> [Water |-> TRUE, Oil |-> TRUE, Gas |-> TRUE],
       phase_pos  |-> [Water |-> 0, Oil |-> 1, Gas |-> 2]],
      [num_phases |-> 2,
       phase_used |-> [Water |-> TRUE, Oil |-> TRUE, Gas |-> FALSE],
       phase_pos  |-> [Water |-> 0, Oil |-> 1, Gas |-> 0 - 1]],
      [num_phases |-> 2,
       phase_used |-> [Water |-> FALSE, Oil |-> TRUE, Gas |-> TRUE],
       phase_pos  |-> [Water |-> 0 - 1, Oil |-> 0, Gas |-> 1]] }

\* a well of the Wells struct with the values the base class holds for it:
\* injector or producer, two controls of which the struct has the first as
\* current and the well state either, flowing or not
DenseWells ==
    {[type |-> type, ctrl_types |-> ctrl_types, current |-> current, flowing |-> flowing] :
        type \in {"INJECTOR", "PRODUCER"},
        ctrl_types \in {[i \in 0..1 |-> <<"BHP", "SURFACE_RATE">>[i + 1]],
                        [i \in 0..1 |-> <<"THP", "RESERVOIR_RATE">>[i + 1]]},
        current \in 0..1,
        flowing \in BOOLEAN}

DenseWellLists ==
    {<< >>} \cup {<<a>> : a \in DenseWells}
        \cup {<<b, a>> : a \in DenseWells,
                         b \in {c \in DenseWells : c.type = "PRODUCER" /\ c.current = 0
                                  /\ c.flowing /\ c.ctrl_types[0] = "BHP"}}

\* the rates of a flowing well by phase position, and the composition of
\* the stream of an injector and of a producer, in hundredths
FlowingRates ==
    <<12, 6, 300>>

CompFrac(type) ==
    IF type = "INJECTOR" THEN <<100, 0, 0>> ELSE <<20, 50, 30>>

\* line 68, BaseType::init: the Wells struct is cloned and the rates, bhp and
\* current controls of the wells are set; the well solutions are not touched
BaseInit(d, given, list, pu) ==
    LET nw == Len(list)
        np == pu.num_phases
        sign(w) == IF list[w + 1].type = "PRODUCER" THEN 0 - 1 ELSE 1
    IN  IF ~given
        THEN [EmptyDense EXCEPT !.well_solutions_ = d.well_solutions_]
        ELSE [wells_ |-> [given |-> TRUE,
                          number_of_wells |-> nw,
                          number_of_phases |-> np,
                          type |-> [w \in 0..(nw - 1) |-> list[w + 1].type],
                          comp_frac |-> [k \in 0..(nw * np - 1) |->
                                            CompFrac(list[(k \div np) + 1].type)[(k % np) + 1]],
                          ctrls |-> [w \in 0..(nw - 1) |->
                                        [current |-> 0, type |-> list[w + 1].ctrl_types]]],
              wellRates |-> [k \in 0..(nw * np - 1) |->
                                IF list[(k \div np) + 1].flowing
                                THEN sign(k \div np) * FlowingRates[(k % np) + 1]
                                ELSE 0],
              bhp |-> [w \in 0..(nw - 1) |-> 17000 + 100 * w],
              currentControls |-> [w \in 0..(nw - 1) |-> list[w + 1].current],
              well_solutions_ |-> d.well_solutions_,
              written |-> {}]

\* how a call can end: stopped by the assertion, returned, or, after a write
\* past the end of the vector, either returned or brought down by the write
Endings(r) ==
    IF r.aborted
    THEN {"setWellSolutions_aborted"}
    ELSE IF r.dense.written \subseteq DOMAIN r.dense.well_solutions_
    THEN {"setWellSolutions"}
    ELSE {"setWellSolutions", "setWellSolutions_faulted"}

\* lines 65-76: init of the dense state, in a build with or without assertions
InitDense ==
    /\ last.op \notin {"setWellSolutions_aborted", "setWellSolutions_faulted"}
    /\ \E given \in BOOLEAN, list \in DenseWellLists, pu \in PhaseUsages, ndebug \in BOOLEAN :
       \E r \in {setWellSolutions(BaseInit(dense, given, list, pu), pu, ndebug)} :
       \E ending \in Endings(r) :
          /\ dense' = r.dense
          /\ last' = [op |-> ending, again |-> FALSE, pu |-> pu]
    /\ UNCHANGED initVars
    /\ UNCHANGED commVars
    /\ UNCHANGED segVars
    /\ UNCHANGED returned

NextDense ==
    InitDense

SpecDense ==
    InitCarry /\ [][NextDense]_vars

---------------------------------------------------------------------------
(* Properties of init without a previous container.                        *)

\* the state is the result of init called without a previous container
FreshInit ==
    last.op = "init" /\ ~UsesPrevious(prevState)

HasLocalConnection(well) ==
    Len(well.perf_cells) > 0

\* the control mode of the well is a single-phase rate target
SinglePhaseTarget(well) ==
    \/ well.isInjector /\ well.cmode = "RATE"
          /\ well.injector_type \in {"WATER", "GAS", "OIL"}
    \/ well.isProducer /\ well.cmode \in {"ORAT", "WRAT", "GRAT"}

\* the signed target in the position of its phase, zero elsewhere
SignedTargetRates(well) ==
    LET phase == IF well.isInjector
                 THEN CASE well.injector_type = "WATER" -> 0
                        [] well.injector_type = "OIL" -> 1
                        [] OTHER -> 2
                 ELSE CASE well.cmode = "WRAT" -> 0
                        [] well.cmode = "ORAT" -> 1
                        [] OTHER -> 2
        target == IF well.isInjector
                  THEN well.surface_rate
                  ELSE CASE well.cmode = "WRAT" -> 0 - well.water_rate
                         [] well.cmode = "ORAT" -> 0 - well.oil_rate
                         [] OTHER -> 0 - well.gas_rate
    IN  [p \in 0..2 |-> IF p = phase THEN target ELSE 0]

\* the pressure initSingleWell is given for the first connection of the well
FirstConnectionPressure(well) ==
    IF well.first_perf_local
    THEN cellPressures[well.perf_cells[1]]
    ELSE well.remote_first_value

\* C7 as stated: after init without a previous container, every well under a
\* single-phase rate target has the signed target as the surface rate of the
\* targeted phase and zero for the other phases.
C7_EveryRateTargetWell ==
    FreshInit =>
        \A w \in 1..Len(wells_ecl) :
            SinglePhaseTarget(wells_ecl[w])
                => wells_[w].surface_rates = SignedTargetRates(wells_ecl[w])

\* C7, amended: after init without a previous container, every well under a
\* single-phase rate target that has a local connection and is neither STOP
\* nor SHUT has the signed target as the surface rate of the targeted phase
\* and zero for the other phases.
C7_RateTargetOfOpenWell ==
    FreshInit =>
        \A w \in 1..Len(wells_ecl) :
            ( /\ SinglePhaseTarget(wells_ecl[w])
              /\ HasLocalConnection(wells_ecl[w])
              /\ wells_ecl[w].status \notin {"STOP", "SHUT"} )
                => wells_[w].surface_rates = SignedTargetRates(wells_ecl[w])

C7_Witness ==
    /\ FreshInit
    /\ \E w \in 1..Len(wells_ecl) :
          /\ wells_ecl[w].isProducer
          /\ wells_ecl[w].cmode = "GRAT"
          /\ wells_ecl[w].status = "OPEN"
          /\ HasLocalConnection(wells_ecl[w])
          /\ wells_[w].surface_rates = VecOf(<<0, 0, 0 - wells_ecl[w].gas_rate>>)
          /\ wells_ecl[w].gas_rate > 0

\* C8: init called a second time with the same inputs and no previous state
\* leaves the container as the first call left it.
C8_InitIdempotent ==
    [][ (last.op = "init" /\ last'.op = "init" /\ ~UsesPrevious(prevState'))
            => /\ wells_' = wells_
               /\ well_rates' = well_rates
               /\ alq_state' = alq_state
               /\ global_well_info' = global_well_info ]_vars

C8_Witness ==
    /\ FreshInit
    /\ last.again
    /\ Len(wells_) = 2
    /\ \E w \in 1..Len(wells_) : wells_[w].surface_rates # Zeros(numPhases)
    /\ \E n \in DOMAIN well_rates : well_rates[n].owner

\* C9: after init without a previous container, a bhp-controlled well with a
\* local connection has bhp equal to its bhp limit, when it is STOP and when
\* it is open under its own control.
C9_BhpControlledWell ==
    FreshInit =>
        \A w \in 1..Len(wells_ecl) :
            ( /\ wells_ecl[w].cmode = "BHP"
              /\ HasLocalConnection(wells_ecl[w])
              /\ wells_ecl[w].status \in {"STOP", "OPEN", "AUTO"} )
                => wells_[w].bhp = wells_ecl[w].bhp_limit

C9_Witness ==
    /\ FreshInit
    /\ \E w \in 1..Len(wells_ecl) :
          /\ wells_ecl[w].isProducer
          /\ wells_ecl[w].cmode = "BHP"
          /\ wells_ecl[w].status = "OPEN"
          /\ wells_ecl[w].bhp_limit = 20000
          /\ wells_ecl[w].perf_cells = <<0>>
          /\ cellPressures[0] = 21000
          /\ wells_[w].bhp = 20000

\* C10: after init without a previous container, a well with a local
\* connection that is under GRUP control and not STOP has bhp equal to 1.01
\* (injector) or 0.99 (producer) times the broadcast first-connection
\* pressure and zero surface rates; a STOP well that is not bhp-controlled
\* has the unscaled first-connection pressure.
C10_GroupControlledWell ==
    FreshInit =>
        \A w \in 1..Len(wells_ecl) :
            LET well == wells_ecl[w]
                p == FirstConnectionPressure(well)
            IN  HasLocalConnection(well) =>
                  /\ (well.status # "STOP" /\ well.cmode = "GRUP")
                        => /\ 100 * wells_[w].bhp = (IF well.isInjector THEN 101 ELSE 99) * p
                           /\ wells_[w].surface_rates = Zeros(numPhases)
                  /\ (well.status = "STOP" /\ well.cmode # "BHP")
                        => wells_[w].bhp = p

C10_Witness ==
    /\ FreshInit
    /\ \E w \in 1..Len(wells_ecl) :
          /\ wells_ecl[w].isInjector
          /\ wells_ecl[w].cmode = "GRUP"
          /\ wells_ecl[w].status = "OPEN"
          /\ wells_ecl[w].perf_cells = <<1, 0>>
          /\ cellPressures[1] = 10000
          /\ wells_[w].bhp = 10100
          /\ wells_[w].surface_rates = Zeros(numPhases)

---------------------------------------------------------------------------
(* Properties of the carry-over.                                           *)

\* the state is the result of init called with a previous container it uses
CarryInit ==
    last.op = "init" /\ UsesPrevious(prevState)

\* no control-changing event is recorded for the well in this step
NoControlEvent(name) ==
    name \notin DOMAIN schedule.wellgroup_events
        \/ ~hasEvent(schedule.wellgroup_events[name], event_mask)

\* the previous container holds the well
HeldBefore(name) ==
    UsesPrevious(prevState) /\ IndexOf(prevState.wells, name) # 0

PrevWell(name) ==
    prevState.wells[IndexOf(prevState.wells, name)]

\* the well is SHUT in neither step and kept its role
TakesOver(well) ==
    /\ HeldBefore(well.name)
    /\ well.status # "SHUT"
    /\ PrevWell(well.name).status # "SHUT"
    /\ PrevWell(well.name).producer = well.isProducer

\* C2 as stated: a well the previous container holds with surface rates R,
\* with no control-change event this step, has surface rates R after init.
C2_RatesCarriedForEveryWell ==
    CarryInit =>
        \A w \in 1..Len(wells_ecl) :
            (HeldBefore(wells_ecl[w].name) /\ NoControlEvent(wells_ecl[w].name))
                => wells_[w].surface_rates = PrevWell(wells_ecl[w].name).surface_rates

\* C2, amended: a well the previous container holds with surface rates R,
\* with no control-change event this step, that is SHUT in neither step and
\* kept its role, has surface rates R after init.
C2_RatesCarried ==
    CarryInit =>
        \A w \in 1..Len(wells_ecl) :
            (TakesOver(wells_ecl[w]) /\ NoControlEvent(wells_ecl[w].name))
                => wells_[w].surface_rates = PrevWell(wells_ecl[w].name).surface_rates

C2_Witness ==
    /\ CarryInit
    /\ \E w \in 1..Len(wells_ecl) :
          /\ TakesOver(wells_ecl[w])
          /\ NoControlEvent(wells_ecl[w].name)
          /\ wells_ecl[w].cmode = "GRUP"
          /\ wells_[w].surface_rates = VecOf(<<0, 0 - 6, 0>>)
          /\ IndexOf(prevState.wells, wells_ecl[w].name) # w

\* the control mode the container holds for the well
ActiveControlMode(ws) ==
    IF ws.producer THEN ws.production_cmode ELSE ws.injection_cmode

\* C4 as stated: after init, with or without a previous container, every STOP
\* well and every well under GRUP has zero surface rates.
C4_StopAndGrupRatesZero ==
    last.op = "init" =>
        \A w \in 1..Len(wells_ecl) :
            (wells_ecl[w].status = "STOP" \/ ActiveControlMode(wells_[w]) = "GRUP")
                => wells_[w].surface_rates = Zeros(numPhases)

\* C4, amended: after init, every STOP well and every well under GRUP has
\* zero surface rates unless it takes over the rates of the previous
\* container (held there, SHUT in neither step, same role); a well that does
\* has the surface rates the previous container holds for it.
C4_StopAndGrupRates ==
    last.op = "init" =>
        \A w \in 1..Len(wells_ecl) :
            (wells_ecl[w].status = "STOP" \/ ActiveControlMode(wells_[w]) = "GRUP")
                => wells_[w].surface_rates =
                      IF TakesOver(wells_ecl[w])
                      THEN PrevWell(wells_ecl[w].name).surface_rates
                      ELSE Zeros(numPhases)

C4_Witness ==
    /\ last.op = "init"
    /\ \E w \in 1..Len(wells_ecl) :
          /\ wells_ecl[w].status = "STOP"
          /\ HeldBefore(wells_ecl[w].name)
          /\ ~TakesOver(wells_ecl[w])
          /\ PrevWell(wells_ecl[w].name).surface_rates # Zeros(numPhases)
          /\ wells_[w].surface_rates = Zeros(numPhases)
    /\ \E w \in 1..Len(wells_ecl) :
          /\ ActiveControlMode(wells_[w]) = "GRUP"
          /\ wells_[w].status = "OPEN"
          /\ wells_[w].surface_rates = Zeros(numPhases)

---------------------------------------------------------------------------
(* Properties of init and initWellStateMSWell over report steps.           *)

\* the container of this step, had no previous container been given
FreshInitialisation ==
    LET fresh == init(cellPressures, schedule, wells_ecl, report_step, NoPrev, Members).wells_
    IN  IF last.op = "initWellStateMSWell"
        THEN initWellStateMSWell(fresh, wells_ecl, NoPrev)
        ELSE fresh

\* what a well can take over from the previous container
CarriedValues(ws) ==
    [surface_rates |-> ws.surface_rates, reservoir_rates |-> ws.reservoir_rates,
     well_potentials |-> ws.well_potentials, productivity_index |-> ws.productivity_index,
     injection_cmode |-> ws.injection_cmode, production_cmode |-> ws.production_cmode,
     phase_rates |-> ws.perf_data.phase_rates, segments |-> ws.segments]

\* C3: after init with a previous container, and after initWellStateMSWell
\* with it, every well that is SHUT this step has the surface rates,
\* reservoir rates, potentials, productivity index, control modes,
\* per-connection rates and segment state of a fresh initialisation.
C3_ShutWellsCopyNothing ==
    (last.op \in {"init", "initWellStateMSWell"} /\ prevState.given) =>
        \A w \in 1..Len(wells_ecl) :
            wells_ecl[w].status = "SHUT"
                => CarriedValues(wells_[w]) = CarriedValues(FreshInitialisation[w])

\* a multi-segment well is SHUT this step; the previous container holds it
\* as a well that is not SHUT, with rates and segment rates that are not zero
C3_Witness ==
    /\ last.op = "initWellStateMSWell"
    /\ Len(wells_ecl) = 1
    /\ wells_ecl[1].status = "SHUT"
    /\ wells_ecl[1].isMultiSegment
    /\ HeldBefore(wells_ecl[1].name)
    /\ PrevWell(wells_ecl[1].name).status # "SHUT"
    /\ PrevWell(wells_ecl[1].name).producer = wells_ecl[1].isProducer
    /\ PrevWell(wells_ecl[1].name).surface_rates # Zeros(numPhases)
    /\ VecLen(PrevWell(wells_ecl[1].name).segments.rates) > 0
    /\ PrevWell(wells_ecl[1].name).segments.rates[phase_usage_.phase_pos.Vapour] # 0

\* C6 as stated: a call of initWellStateMSWell leaves the per-connection
\* phase rates in the perforation data of every well as they were before the
\* call.
C6_GasScalingIsLocal ==
    [][last'.op = "initWellStateMSWell" =>
        \A w \in DOMAIN wells_ :
            wells_'[w].perf_data.phase_rates = wells_[w].perf_data.phase_rates]_vars

---------------------------------------------------------------------------
(* Properties of calculateSegmentRates and communicateGroupRates.          *)

\* the open perforations of the well
NumPerforations ==
    VecLen(perforation_rates) \div numPhases

\* C5: after calculateSegmentRates from the top segment, the rate of every
\* segment in every phase is the sum of the rates of its perforations and of
\* the rates of its direct inlet segments, and the rate of the top segment is
\* the sum of the rates of all perforations of the well.
C5_SegmentRatesAreSums ==
    last.op = "calculateSegmentRates" =>
        /\ \A seg \in DOMAIN segment_inlets, p \in 0..(numPhases - 1) :
              segment_rates[numPhases * seg + p] =
                  SumSeq([k \in 1..Len(segment_perforations[seg]) |->
                            perforation_rates[numPhases * segment_perforations[seg][k] + p]])
                  + SumSeq([k \in 1..Len(segment_inlets[seg]) |->
                            segment_rates[numPhases * segment_inlets[seg][k] + p]])
        /\ \A p \in 0..(numPhases - 1) :
              segment_rates[p] =
                  SumSeq([perf \in 1..NumPerforations |->
                            perforation_rates[numPhases * (perf - 1) + p]])

\* a segment with a perforation of its own and an inlet segment that has one
C5_Witness ==
    /\ last.op = "calculateSegmentRates"
    /\ \E seg \in DOMAIN segment_inlets :
          /\ seg # 0
          /\ segment_perforations[seg] # << >>
          /\ segment_inlets[seg] # << >>
          /\ segment_perforations[segment_inlets[seg][1]] # << >>
          /\ segment_rates[numPhases * seg] # 0

\* the processes that own the well
OwnersOf(name) ==
    {r \in DOMAIN rank_pre : rank_pre[r][name].owner}

\* C1: after communicateGroupRates, a well that exactly one process owns
\* has, on every process, the rates the owner held before the call.
C1_OwnerRatesEverywhere ==
    last.op = "communicateGroupRates" =>
        \A name \in DOMAIN rank_pre[1] :
            Cardinality(OwnersOf(name)) = 1 =>
                \A r \in DOMAIN rank_well_rates, o \in OwnersOf(name) :
                    rank_well_rates[r][name].rates = rank_pre[o][name].rates

\* three processes, one of them the owner, the others holding other rates
C1_Witness ==
    /\ last.op = "communicateGroupRates"
    /\ Len(rank_pre) >= 3
    /\ \E name \in DOMAIN rank_pre[1] :
          /\ Cardinality(OwnersOf(name)) = 1
          /\ \E o \in OwnersOf(name) :
                \A r \in DOMAIN rank_pre :
                    r # o => rank_pre[r][name].rates # rank_pre[o][name].rates

---------------------------------------------------------------------------
(* Properties of the carry-over of connections, control modes and thp.     *)

\* the well takes over the previous state and the container holds another
\* number of connections for it than the previous container did
ConnectionCountDiffers(w) ==
    /\ TakesOver(wells_ecl[w])
    /\ PerfSize(wells_[w].perf_data) # PerfSize(PrevWell(wells_ecl[w].name).perf_data)

\* C11 as stated: after init with a previous container, a well whose number
\* of connections differs from the previous one has, on each connection and
\* for every phase, the carried-over surface rate divided by the number of
\* connections the container now holds for it.
C11_RateOverConnectionCount ==
    CarryInit =>
        \A w \in 1..Len(wells_ecl) :
            ConnectionCountDiffers(w) =>
                \A perf \in 0..(PerfSize(wells_[w].perf_data) - 1), p \in 0..(numPhases - 1) :
                    wells_[w].perf_data.phase_rates[numPhases * perf + p]
                            * PerfSize(wells_[w].perf_data)
                        = PrevWell(wells_ecl[w].name).surface_rates[p]

\* C11, amended: after init with a previous container, a well whose number
\* of connections differs from the previous one has, on each connection and
\* for every phase, the carried-over surface rate divided by the number of
\* open connections of the well on all processes.
C11_RateOverOpenConnections ==
    CarryInit =>
        \A w \in 1..Len(wells_ecl) :
            ConnectionCountDiffers(w) =>
                \A perf \in 0..(PerfSize(wells_[w].perf_data) - 1), p \in 0..(numPhases - 1) :
                    wells_[w].perf_data.phase_rates[numPhases * perf + p]
                            * wells_ecl[w].num_open
                        = PrevWell(wells_ecl[w].name).surface_rates[p]

\* a solved well with one connection has two connections in the next step
C11_Witness ==
    /\ CarryInit
    /\ \E w \in 1..Len(wells_ecl) :
          /\ ConnectionCountDiffers(w)
          /\ PerfSize(PrevWell(wells_ecl[w].name).perf_data) = 1
          /\ PerfSize(wells_[w].perf_data) = 2
          /\ PrevWell(wells_ecl[w].name).surface_rates = VecOf(<<0 - 30, 0 - 36, 0 - 42>>)
          /\ wells_[w].perf_data.phase_rates = VecOf(<<0 - 15, 0 - 18, 0 - 21, 0 - 15, 0 - 18, 0 - 21>>)

---------------------------------------------------------------------------
(* Properties of report.                                                   *)

\* C12: the report holds an entry for a well of the container if and only
\* if the well is not SHUT or the caller's wasDynamicallyClosed holds for its
\* index, and no other entry; the report of an empty container is empty.
C12_ReportedWells ==
    last.op = "report" =>
        /\ \A i \in 1..Len(wells_) :
              wells_[i].name \in DOMAIN returned.value
                  <=> (wells_[i].status # "SHUT" \/ last.wasDynamicallyClosed[i - 1])
        /\ DOMAIN returned.value \subseteq {wells_[i].name : i \in 1..Len(wells_)}

\* of two wells the SHUT one was closed in this step and is reported, and a
\* SHUT well that was not is left out of another report
C12_Witness ==
    /\ last.op = "report"
    /\ Len(wells_) = 2
    /\ \E i \in 1..2 :
          /\ wells_[i].status = "SHUT"
          /\ last.wasDynamicallyClosed[i - 1]
          /\ wells_[i].name \in DOMAIN returned.value
          /\ returned.value[wells_[i].name].bhp = wells_[i].bhp
    /\ Cardinality(DOMAIN returned.value) = 2

---------------------------------------------------------------------------
(* Properties of init on a rejected well definition.                       *)

\* the first well of the list that is both injector and producer or neither,
\* or 0 when the list holds no such well
FirstRejected ==
    LET rejected == {w \in 1..Len(wells_ecl) :
                        wells_ecl[w].isInjector = wells_ecl[w].isProducer}
    IN  IF rejected = {} THEN 0 ELSE CHOOSE w \in rejected : \A v \in rejected : w <= v

\* C13: init on a list with a well that is both injector and producer, or
\* neither, throws; the container then holds the wells before that well, in
\* the order of the list, and no entry for that well or for a later well.
C13_RejectedWellAddsNothing ==
    last.op \in {"init", "init_threw"} =>
        /\ last.op = "init_threw" <=> FirstRejected # 0
        /\ FirstRejected # 0 =>
              /\ Len(wells_) = FirstRejected - 1
              /\ \A i \in 1..Len(wells_) : wells_[i].name = wells_ecl[i].name
              /\ \A w \in FirstRejected..Len(wells_ecl) :
                    \A i \in 1..Len(wells_) : wells_[i].name # wells_ecl[w].name

\* a well that is both injector and producer stands before a valid well: the
\* call threw and the container is empty
C13_Witness ==
    /\ last.op = "init_threw"
    /\ Len(wells_ecl) = 2
    /\ wells_ecl[1].isInjector /\ wells_ecl[1].isProducer
    /\ wells_ecl[2].isInjector # wells_ecl[2].isProducer
    /\ wells_ = << >>

---------------------------------------------------------------------------
(* Properties of resetConnectionTransFactors.                              *)

\* the supplied list has the connections of the well: their number, the cell
\* and the saturation region of each
SuppliedMatches ==
    LET perf_data == wells_[last.well_index + 1].perf_data
        new_perf_data == last.new_perf_data
    IN  /\ PerfSize(perf_data) = Len(new_perf_data)
        /\ \A i \in 0..(PerfSize(perf_data) - 1) :
              /\ perf_data.cell_index[i] = new_perf_data[i + 1].cell_index
              /\ perf_data.satnum_id[i] = new_perf_data[i + 1].satnum_id

\* C14: resetConnectionTransFactors throws if and only if the supplied list
\* differs from the connections of the well in number, in the cell of a
\* connection or in the saturation region of a connection; when it does not
\* throw, every connection has the supplied transmissibility factor.
C14_ResetChecksConnections ==
    last.op = "resetConnectionTransFactors" =>
        /\ returned.threw <=> ~SuppliedMatches
        /\ ~returned.threw =>
              \A i \in 0..(PerfSize(wells_[last.well_index + 1].perf_data) - 1) :
                  wells_[last.well_index + 1].perf_data.connection_transmissibility_factor[i]
                      = last.new_perf_data[i + 1].connection_transmissibility_factor

\* two connections get new factors
C14_Witness ==
    /\ last.op = "resetConnectionTransFactors"
    /\ ~returned.threw
    /\ Len(last.new_perf_data) = 2
    /\ wells_[last.well_index + 1].perf_data.connection_transmissibility_factor
          = VecOf(<<77, 77>>)

---------------------------------------------------------------------------
(* Control modes over report steps.                                        *)

\* C15: after init with a previous container, a well it holds that is SHUT
\* in neither step and kept its role has the injection and production
\* control modes of the previous container when no control-changing event is
\* recorded for it this step, and the control mode of this step's schedule
\* when one is; either way it has the surface rates, reservoir rates,
\* potentials and productivity index of the previous container.
C15_ControlModeCarried ==
    CarryInit =>
        \A w \in 1..Len(wells_ecl) :
            TakesOver(wells_ecl[w]) =>
                LET prev_well == PrevWell(wells_ecl[w].name)
                IN  /\ NoControlEvent(wells_ecl[w].name) =>
                          /\ wells_[w].injection_cmode = prev_well.injection_cmode
                          /\ wells_[w].production_cmode = prev_well.production_cmode
                    /\ ~NoControlEvent(wells_ecl[w].name) =>
                          ActiveControlMode(wells_[w]) = wells_ecl[w].cmode
                    /\ wells_[w].surface_rates = prev_well.surface_rates
                    /\ wells_[w].reservoir_rates = prev_well.reservoir_rates
                    /\ wells_[w].well_potentials = prev_well.well_potentials
                    /\ wells_[w].productivity_index = prev_well.productivity_index

\* a solved well whose control mode the schedule changes with an event
C15_Witness ==
    /\ CarryInit
    /\ \E w \in 1..Len(wells_ecl) :
          /\ TakesOver(wells_ecl[w])
          /\ ~NoControlEvent(wells_ecl[w].name)
          /\ ActiveControlMode(PrevWell(wells_ecl[w].name)) = "ORAT"
          /\ wells_[w].production_cmode = "GRUP"
          /\ wells_[w].surface_rates = VecOf(<<0 - 30, 0 - 36, 0 - 42>>)
          /\ wells_[w].productivity_index = VecOf(<<4, 5, 6>>)

---------------------------------------------------------------------------
(* Tubing-head pressure after init.                                        *)

\* C16 as stated: after init, with or without a previous container, every
\* well without a THP limit has thp zero, and every well with a THP limit
\* that the previous container does not hold has thp equal to the limit.
C16_ThpLimitOfEveryWell ==
    last.op = "init" =>
        \A w \in 1..Len(wells_ecl) :
            /\ ~wells_ecl[w].has_thp => wells_[w].thp = 0
            /\ (wells_ecl[w].has_thp /\ ~HeldBefore(wells_ecl[w].name))
                  => wells_[w].thp = wells_ecl[w].thp_limit

\* C16, amended: after init, with or without a previous container, every
\* well without a THP limit has thp zero, whatever the previous container
\* holds; a well with a THP limit that the previous container does not hold
\* has thp equal to the limit if it has a connection on this process, and
\* zero if it has none.
C16_ThpLimit ==
    last.op = "init" =>
        \A w \in 1..Len(wells_ecl) :
            /\ ~wells_ecl[w].has_thp => wells_[w].thp = 0
            /\ (wells_ecl[w].has_thp /\ ~HeldBefore(wells_ecl[w].name))
                  => wells_[w].thp = IF Len(wells_ecl[w].perf_cells) > 0
                                     THEN wells_ecl[w].thp_limit
                                     ELSE 0

\* a well that had its THP limit as thp in the previous step has none now
C16_Witness ==
    /\ CarryInit
    /\ \E w \in 1..Len(wells_ecl) :
          /\ TakesOver(wells_ecl[w])
          /\ ~wells_ecl[w].has_thp
          /\ PrevWell(wells_ecl[w].name).thp = wells_ecl[w].thp_limit
          /\ wells_ecl[w].thp_limit > 0
          /\ wells_[w].thp = 0

---------------------------------------------------------------------------
(* Segment pressures after initWellStateMSWell.                            *)

\* the state is the result of initWellStateMSWell without a previous container
FreshSegments ==
    last.op = "initWellStateMSWell" /\ ~UsesPrevious(prevState)

\* the open connections attached to the segment, by their position among the
\* open connections of the well
AttachedPerforations(well, seg) ==
    {Cardinality({j \in 1..(k - 1) : well.connections[j].open}) :
        k \in {c \in 1..Len(well.connections) :
                  /\ well.connections[c].open
                  /\ well.connections[c].segment = well.segments[seg + 1].segmentNumber}}

\* the index of the outlet segment of the segment
OutletIndex(well, seg) ==
    segmentNumberToIndex(well.segments, well.segments[seg + 1].outletSegment)

\* every segment without a connection follows its outlet segment in the list
OutletsResolvedFirst(well) ==
    \A seg \in 1..(Len(well.segments) - 1) :
        AttachedPerforations(well, seg) = {} => OutletIndex(well, seg) < seg

\* the pressure of the top segment is the bhp, the pressure of a segment with
\* connections is that of its first connection, and the pressure of a segment
\* without, whose outlet precedes it, is that of the outlet
SeededPressures(ws, well) ==
    /\ ws.segments.pressure[0] = ws.bhp
    /\ \A seg \in 1..(Len(well.segments) - 1) :
          LET attached == AttachedPerforations(well, seg)
          IN  IF attached # {}
              THEN ws.segments.pressure[seg] =
                      ws.perf_data.pressure[CHOOSE f \in attached : \A o \in attached : f <= o]
              ELSE OutletIndex(well, seg) < seg =>
                      ws.segments.pressure[seg] = ws.segments.pressure[OutletIndex(well, seg)]

\* the pressure is the bhp or the pressure of a connection of the well
BhpOrPerforationPressure(ws, pressure) ==
    \/ pressure = ws.bhp
    \/ \E perf \in DOMAIN ws.perf_data.pressure : pressure = ws.perf_data.pressure[perf]

---------------------------------------------------------------------------
(* Connection rates and pressures after init.                              *)

\* the pressure of every local connection is the pressure of its cell
ConnectionPressuresFromCells(ws) ==
    \A perf \in 0..(PerfSize(ws.perf_data) - 1) :
        ws.perf_data.pressure[perf] = cellPressures[ws.perf_data.cell_index[perf]]

\* C18 as stated: after init without a previous container every local
\* connection of a well holds, per phase, the surface rate of the well divided
\* by the number of its local connections, and the pressure of its cell.
C18_RateOverLocalConnections ==
    FreshInit =>
        \A w \in 1..Len(wells_ecl) :
            /\ \A perf \in 0..(PerfSize(wells_[w].perf_data) - 1), p \in 0..(numPhases - 1) :
                  wells_[w].perf_data.phase_rates[numPhases * perf + p]
                          * PerfSize(wells_[w].perf_data)
                      = wells_[w].surface_rates[p]
            /\ ConnectionPressuresFromCells(wells_[w])

\* C18, amended: after init without a previous container every local
\* connection of a well whose schedule status is OPEN holds, per phase, the
\* surface rate of the well divided by the number of open connections the
\* well has on all processes; the connections of every other well hold zero
\* rates; every local connection has the pressure of its cell.
C18_RateOverOpenConnections ==
    FreshInit =>
        \A w \in 1..Len(wells_ecl) :
            /\ \A perf \in 0..(PerfSize(wells_[w].perf_data) - 1), p \in 0..(numPhases - 1) :
                  IF wells_ecl[w].status = "OPEN"
                  THEN wells_[w].perf_data.phase_rates[numPhases * perf + p]
                              * wells_ecl[w].num_open
                          = wells_[w].surface_rates[p]
                  ELSE wells_[w].perf_data.phase_rates[numPhases * perf + p] = 0
            /\ ConnectionPressuresFromCells(wells_[w])

\* an open oil producer with one of its two open connections on this process
C18_Witness ==
    /\ FreshInit
    /\ \E w \in 1..Len(wells_ecl) :
          /\ wells_ecl[w].status = "OPEN"
          /\ wells_ecl[w].num_open = 2
          /\ PerfSize(wells_[w].perf_data) = 1
          /\ wells_[w].surface_rates = VecOf(<<0, 0 - 6, 0>>)
          /\ wells_[w].perf_data.phase_rates = VecOf(<<0, 0 - 3, 0>>)
          /\ wells_[w].perf_data.pressure = VecOf(<<10000>>)

---------------------------------------------------------------------------
(* Well status after init and after the status operations.                 *)

\* the status init leaves for a schedule status
TerminalStatus(status) ==
    CASE status = "SHUT" -> "SHUT"
      [] status = "STOP" -> "STOP"
      [] OTHER -> "OPEN"

\* C19: when init returns, with or without a previous container, every well
\* is SHUT if its schedule status is SHUT, STOP if it is STOP and OPEN for
\* every other schedule status, also with no connection on this process;
\* stopWell, openWell, shutWell and updateStatus give the well at the index
\* its new status and leave every other well as it was.
C19_StatusFollowsSchedule ==
    [][ /\ last'.op = "init" =>
              \A w \in 1..Len(wells_ecl') :
                  wells_'[w].status = TerminalStatus(wells_ecl'[w].status)
        /\ last'.op \in {"stopWell", "openWell", "shutWell", "updateStatus"} =>
              /\ Len(wells_') = Len(wells_)
              /\ wells_'[last'.well_index + 1].status = last'.status
              /\ \A w \in 1..Len(wells_) :
                    w # last'.well_index + 1 => wells_'[w] = wells_[w]
      ]_vars

\* a well without local connections that the previous container holds as
\* STOP is opened by a schedule status that is neither OPEN, STOP nor SHUT
C19_Witness ==
    /\ CarryInit
    /\ \E w \in 1..Len(wells_ecl) :
          /\ HeldBefore(wells_ecl[w].name)
          /\ PrevWell(wells_ecl[w].name).status = "STOP"
          /\ wells_ecl[w].status = "AUTO"
          /\ ~HasLocalConnection(wells_ecl[w])
          /\ wells_[w].status = "OPEN"

---------------------------------------------------------------------------
(* Segment rates after init and initWellStateMSWell.                       *)

\* the rate of every segment of the well in every phase is the sum of the
\* stored rates of its perforations and of the rates of its inlet segments
SegmentRatesAreSums(ws, well) ==
    LET np == numPhases
        perfs == SegmentPerforations(well.segments, well.connections).segment_perforations
        inlets == SegmentInlets(well.segments)
    IN  /\ VecLen(ws.segments.rates) = np * Len(well.segments)
        /\ \A seg \in 0..(Len(well.segments) - 1), p \in 0..(np - 1) :
              ws.segments.rates[np * seg + p] =
                  SumSeq([k \in 1..Len(perfs[seg]) |->
                            ws.perf_data.phase_rates[np * perfs[seg][k] + p]])
                  + SumSeq([k \in 1..Len(inlets[seg]) |->
                            ws.segments.rates[np * inlets[seg][k] + p]])

\* C20 as stated: after init followed by initWellStateMSWell, with or without
\* a previous container, the rate of every segment of every multi-segment
\* well in every phase is the sum of the stored rates of the perforations of
\* the segment and of the rates of its direct inlet segments.
C20_SegmentRatesAfterInit ==
    last.op = "initWellStateMSWell" =>
        \A w \in 1..Len(wells_ecl) :
            wells_ecl[w].isMultiSegment => SegmentRatesAreSums(wells_[w], wells_ecl[w])

---------------------------------------------------------------------------
(* Wells without a connection on this process.                             *)

\* the entry init gives the well when every cell pressure and the pressure
\* other processes would broadcast are different
EntryUnderOtherPressures(w) ==
    init([c \in DOMAIN cellPressures |-> cellPressures[c] + 500], schedule,
         [i \in DOMAIN wells_ecl |->
             [wells_ecl[i] EXCEPT !.remote_first_value = @ + 500]],
         report_step, prevState, Members).wells_[w]

\* the well is in the container under its name and no pressure was read or
\* broadcast for it
PlaceholderEntry(w) ==
    /\ Len(wells_) = Len(wells_ecl)
    /\ IndexOf(wells_, wells_ecl[w].name) = w
    /\ wells_[w] = EntryUnderOtherPressures(w)

\* C21 as stated: after init, with or without a previous container, a well
\* without a connection on this process is in the container under its name
\* with zero surface rates, bhp and thp, and no first-connection pressure
\* was read or broadcast for it.
C21_PlaceholderAlwaysZero ==
    last.op = "init" =>
        \A w \in 1..Len(wells_ecl) :
            ~HasLocalConnection(wells_ecl[w]) =>
                /\ PlaceholderEntry(w)
                /\ wells_[w].surface_rates = Zeros(numPhases)
                /\ wells_[w].bhp = 0
                /\ wells_[w].thp = 0

\* C21, amended: after init a well without a connection on this process is
\* in the container under its name and no first-connection pressure was
\* read or broadcast for it; its surface rates, bhp and thp are zero unless
\* it takes over the values of the previous container (held there, SHUT in
\* neither step, same role), and then they are the surface rates and the bhp
\* of the previous container and, with a THP limit, its thp.
C21_PlaceholderEntry ==
    last.op = "init" =>
        \A w \in 1..Len(wells_ecl) :
            ~HasLocalConnection(wells_ecl[w]) =>
                /\ PlaceholderEntry(w)
                /\ IF TakesOver(wells_ecl[w])
                   THEN LET prev_well == PrevWell(wells_ecl[w].name)
                        IN  /\ wells_[w].surface_rates = prev_well.surface_rates
                            /\ wells_[w].bhp = prev_well.bhp
                            /\ wells_[w].thp =
                                  IF wells_ecl[w].has_thp THEN prev_well.thp ELSE 0
                   ELSE /\ wells_[w].surface_rates = Zeros(numPhases)
                        /\ wells_[w].bhp = 0
                        /\ wells_[w].thp = 0

\* a well with a THP limit and no connection on this process, first without
\* a previous container
C21_Witness ==
    /\ FreshInit
    /\ \E w \in 1..Len(wells_ecl) :
          /\ ~HasLocalConnection(wells_ecl[w])
          /\ wells_ecl[w].has_thp
          /\ wells_ecl[w].status = "OPEN"
          /\ wells_[w].name = "W1"
          /\ wells_[w].bhp = 0
          /\ wells_[w].thp = 0
          /\ wells_[w].production_cmode = "ORAT"

---------------------------------------------------------------------------
(* Failure of resetConnectionTransFactors.                                 *)

\* C22 as stated: a call of resetConnectionTransFactors that throws leaves
\* the transmissibility factors of the well as they were before the call.
C22_FailedResetChangesNothing ==
    [][(last'.op = "resetConnectionTransFactors" /\ returned'.threw) =>
          wells_'[last'.well_index + 1].perf_data.connection_transmissibility_factor
              = wells_[last'.well_index + 1].perf_data.connection_transmissibility_factor
      ]_vars

---------------------------------------------------------------------------
(* Properties of setWellSolutions.                                         *)

\* the entries of the wells: the control of the struct is the one of the
\* well state; the first entry is the bhp under a rate control and the
\* weighted well rate under BHP or THP; the water and gas fractions are
\* taken from the weighted rates, or from comp_frac when their total is zero
WellSolutionEntries(d, pu) ==
    LET nw == d.wells_.number_of_wells
        np == d.wells_.number_of_phases
    IN  \A w \in 0..(nw - 1) :
          LET type == d.wells_.ctrls[w].type[d.currentControls[w]]
              total == SumSeq([k \in 1..np |-> g[k - 1] * d.wellRates[np * w + k - 1]])
              weighted == IF d.wells_.type[w] = "INJECTOR"
                          THEN SumSeq([k \in 1..np |->
                                  d.wellRates[np * w + k - 1] * d.wells_.comp_frac[np * w + k - 1]])
                          ELSE total
          IN  /\ d.wells_.ctrls[w].current = d.currentControls[w]
              /\ type \in {"SURFACE_RATE", "RESERVOIR_RATE"} =>
                    SameValue(d.well_solutions_[w], Fraction(d.bhp[w], 1))
              /\ type \in {"BHP", "THP"} =>
                    SameValue(d.well_solutions_[w], Fraction(weighted, 100))
              /\ pu.phase_used.Water =>
                    IF total # 0
                    THEN SameValue(d.well_solutions_[nw + w],
                            Fraction(100 * d.wellRates[np * w + pu.phase_pos.Water], total))
                    ELSE SameValue(d.well_solutions_[nw + w],
                            Fraction(d.wells_.comp_frac[np * w + pu.phase_pos.Water], 100))
              /\ pu.phase_used.Gas =>
                    IF total # 0
                    THEN SameValue(d.well_solutions_[2 * nw + w],
                            Fraction(d.wellRates[np * w + pu.phase_pos.Gas], total))
                    ELSE SameValue(d.well_solutions_[2 * nw + w],
                            Fraction(d.wells_.comp_frac[np * w + pu.phase_pos.Gas], 100))

\* the vector has nw*np entries and every index written is one of them
SolutionsSized(d) ==
    /\ VecLen(d.well_solutions_) = d.wells_.number_of_wells * d.wells_.number_of_phases
    /\ \A index \in d.written :
          index < d.wells_.number_of_wells * d.wells_.number_of_phases

\* C23 as stated: after setWellSolutions the vector has nw*np entries, every
\* index written is below nw*np, the control of each well is the one of the
\* well state, and the entries of each well are its bhp or weighted rate and
\* its water and gas fractions.
C23_WellSolutionsOfEveryCall ==
    [][(last'.op = "setWellSolutions" /\ dense'.wells_.given) =>
          /\ SolutionsSized(dense')
          /\ WellSolutionEntries(dense', last'.pu)
      ]_vars

\* C23, amended: a call of setWellSolutions without wells, or with a Wells
\* struct of zero wells, leaves the vector as it was; a call with wells in a
\* run of three phases, or of two without gas, leaves nw*np entries, writes
\* no index of nw*np or more, makes the control of each well the one of the
\* well state, and gives each well its bhp or weighted rate and its water and
\* gas fractions. In a run of two phases with gas the call stops at the
\* assertion of line 132, and where assertions are compiled out it writes
\* the gas fraction at an index that is not below nw*np; only such a run
\* can end in the assertion or in a fault of that write.
C23_WellSolutions ==
    [][/\ last'.op = "setWellSolutions" =>
             IF ~dense'.wells_.given
             THEN dense'.well_solutions_ = dense.well_solutions_
             ELSE IF dense'.wells_.number_of_wells = 0
             THEN dense'.well_solutions_ = dense.well_solutions_
             ELSE IF AssertHolds(last'.pu, dense'.wells_.number_of_phases)
             THEN /\ SolutionsSized(dense')
                  /\ WellSolutionEntries(dense', last'.pu)
             ELSE \A w \in 0..(dense'.wells_.number_of_wells - 1) :
                     /\ 2 * dense'.wells_.number_of_wells + w \in dense'.written
                     /\ 2 * dense'.wells_.number_of_wells + w
                           >= dense'.wells_.number_of_wells * dense'.wells_.number_of_phases
       /\ last'.op \in {"setWellSolutions_aborted", "setWellSolutions_faulted"} =>
             /\ dense'.wells_.given
             /\ dense'.wells_.number_of_wells > 0
             /\ ~AssertHolds(last'.pu, dense'.wells_.number_of_phases)
      ]_vars

\* two wells of a three-phase run: a flowing producer under BHP and an
\* injector without rates whose well state holds its rate control as current
C23_Witness ==
    /\ last.op = "setWellSolutions"
    /\ dense.wells_.given
    /\ dense.wells_.number_of_wells = 2
    /\ dense.wells_.number_of_phases = 3
    /\ dense.wells_.type[1] = "INJECTOR"
    /\ dense.currentControls[1] = 1
    /\ dense.wells_.ctrls[1].current = 1
    /\ dense.well_solutions_[0] = Fraction(0 - 2100, 100)
    /\ dense.well_solutions_[1] = Fraction(17100, 1)
    /\ dense.well_solutions_[2] = Fraction(0 - 1200, 0 - 2100)
    /\ dense.well_solutions_[3] = Fraction(100, 100)
    /\ dense.well_solutions_[4] = Fraction(0 - 300, 0 - 2100)
    /\ dense.well_solutions_[5] = Fraction(0, 100)
    /\ dense.written = 0..5

=============================================================================
